---- MODULE Spec2Model ----
(***************************************************************************)
(* Inventory page of the stock management system (SSMS/src/pages/          *)
(* Inventory.jsx): the React state of InventoryPage, the closures its      *)
(* asynchronous handlers run with, the debounce timer, and the remote      *)
(* tables and blob store the handlers talk to.                             *)
(***************************************************************************)
EXTENDS Integers, Sequences, FiniteSets, TLC

(***************************************************************************)
(* JavaScript values.  A string is the sequence of its character codes     *)
(* ("c" is <<99>>, "" is <<>>), so that strings can be ordered and         *)
(* searched.  A value that may be a number, a string or null is a record   *)
(* of one shape, so that values of different JavaScript types fit the same *)
(* field.                                                                  *)
(***************************************************************************)
Null == [t |-> "null", n |-> 0, s |-> <<>>]
NaN == [t |-> "nan", n |-> 0, s |-> <<>>]
Num(n) == [t |-> "num", n |-> n, s |-> <<>>]
Str(s) == [t |-> "str", n |-> 0, s |-> s]

\* JavaScript truthiness: 0, NaN, '' and null are falsy.
Truthy(v) ==
    CASE v.t = "num" -> v.n # 0
      [] v.t = "str" -> v.s # <<>>
      [] OTHER -> FALSE

\* a || b
OrElse(a, b) == IF Truthy(a) THEN a ELSE b

\* An object reference or null (category, warehouse, editingItem, file).
NoObj(dflt) == [nul |-> TRUE, v |-> dflt]
Some(o) == [nul |-> FALSE, v |-> o]

(***************************************************************************)
(* Program constants.                                                      *)
(***************************************************************************)
MAX_FILE_SIZE == 100 * 1024
SUPPORTED_FORMATS == {"image/jpg", "image/jpeg", "image/gif", "image/png"}
itemsPerPage == 10
DelayMs == 500

(***************************************************************************)
(* Bounds of the model.                                                    *)
(***************************************************************************)
\* ids the store hands out to categories and warehouses are 0 .. MaxId
MaxId == 1
\* the clock advances in steps of TickMs milliseconds
TickMs == 250
\* asynchronous flows that may be suspended at the same time
MaxFlows == 2
\* user events (keystrokes, clicks, submits) in one run
MaxEvents == 3
\* of which changes of the search term, of a filter or of the page
MaxChanges == 2
\* requests the remote store may fail in one run
MaxFaults == 1

(***************************************************************************)
(* Strings.                                                                *)
(***************************************************************************)
\* String.prototype.toLowerCase on the ASCII letters
Lower(c) == IF c \in 65..90 THEN c + 32 ELSE c
toLowerCase(s) == [i \in 1..Len(s) |-> Lower(s[i])]

\* s contains sub as a contiguous substring
Contains(s, sub) ==
    \E i \in 0..(Len(s) - Len(sub)) : SubSeq(s, i + 1, i + Len(sub)) = sub

\* s ILIKE pattern: % in the pattern stands for any run of characters, _ for
\* any one character, every other character for itself in either case
RECURSIVE ilike(_, _)
ilike(s, pattern) ==
    IF pattern = <<>> THEN s = <<>>
    ELSE IF Head(pattern) = 37
         THEN ilike(s, Tail(pattern)) \/ (s # <<>> /\ ilike(Tail(s), pattern))
    ELSE /\ s # <<>>
         /\ Head(pattern) = 95 \/ Lower(Head(pattern)) = Lower(Head(s))
         /\ ilike(Tail(s), Tail(pattern))

\* strict lexicographic order of two strings by character code
RECURSIVE StrLess(_, _)
StrLess(a, b) ==
    IF b = <<>> THEN FALSE
    ELSE IF a = <<>> THEN TRUE
    ELSE IF Head(a) # Head(b) THEN Head(a) < Head(b)
    ELSE StrLess(Tail(a), Tail(b))

\* the decimal digits of a small non-negative integer
RECURSIVE Digits(_)
Digits(n) == IF n < 10 THEN <<48 + n>> ELSE Digits(n \div 10) \o <<48 + (n % 10)>>

\* the value of the longest prefix of decimal digits of s, after acc
RECURSIVE DigitsValue(_, _)
DigitsValue(s, acc) ==
    IF s = <<>> \/ Head(s) \notin 48..57 THEN acc
    ELSE DigitsValue(Tail(s), 10 * acc + (Head(s) - 48))

\* parseInt: a number is returned as it is; a string is parsed up to its
\* first non-digit; a string that starts with no digit, or null, is NaN
parseInt(v) ==
    CASE v.t = "num" -> v
      [] v.t = "str" /\ v.s # <<>> /\ Head(v.s) \in 48..57 -> Num(DigitsValue(v.s, 0))
      [] OTHER -> NaN

(***************************************************************************)
(* Reference entities (category, warehouse).                               *)
(***************************************************************************)
Entry(id, name) == [id |-> Num(id), name |-> Str(name)]
NullEntry == [id |-> Null, name |-> Null]

\* Array.prototype.find with the test c.name === name
RECURSIVE findByName(_, _)
findByName(list, name) ==
    IF list = <<>> THEN NoObj(NullEntry)
    ELSE IF Head(list).name = name THEN Some(Head(list))
    ELSE findByName(Tail(list), name)

\* Array.prototype.find with the test c.id === id
RECURSIVE findById(_, _)
findById(list, id) ==
    IF list = <<>> THEN NoObj(NullEntry)
    ELSE IF Head(list).id = id THEN Some(Head(list))
    ELSE findById(Tail(list), id)

(***************************************************************************)
(* fetchInventory: enrichment of one stored row with the category and      *)
(* warehouse lists of the closure that runs it.                            *)
(***************************************************************************)
\* an enrichment that looks the name up and nothing more: a name that
\* matches no entry resolves to null
resolveByNameOrNull(list, name) ==
    IF Truthy(name) THEN findByName(list, name) ELSE NoObj(NullEntry)

\* item.category ? categories.find(c => c.name === item.category)
\*                 || { id: null, name: item.category } : null
resolveByName(list, name) ==
    IF Truthy(name)
    THEN LET found == findByName(list, name)
         IN IF found.nul THEN Some([id |-> Null, name |-> name]) ELSE found
    ELSE NoObj(NullEntry)

\* category?.id || ''
derivedId(obj) == IF obj.nul THEN Str(<<>>) ELSE OrElse(obj.v.id, Str(<<>>))

enhanceItem(item, cats, whs) ==
    LET category == resolveByName(cats, item.category)
        warehouse == resolveByName(whs, item.warehouse)
    IN [id |-> item.id, name |-> item.name, quantity |-> item.quantity,
        price |-> item.price, threshold |-> item.threshold,
        thumbnail |-> item.thumbnail,
        category |-> category, warehouse |-> warehouse,
        category_id |-> derivedId(category),
        warehouse_id |-> derivedId(warehouse)]

enhancedStockData(rows, cats, whs) ==
    [i \in 1..Len(rows) |-> enhanceItem(rows[i], cats, whs)]

(***************************************************************************)
(* The inventory table: the status cell of a row.                          *)
(***************************************************************************)
\* a status cell that marks a row low only below its threshold:
\* item.quantity < item.threshold
statusCellStrict(item) ==
    IF item.quantity < item.threshold THEN "Low Stock" ELSE "In Stock"

\* item.quantity <= item.threshold ? Low Stock : In Stock
statusCell(item) ==
    IF item.quantity <= item.threshold THEN "Low Stock" ELSE "In Stock"

(***************************************************************************)
(* Forms.                                                                  *)
(***************************************************************************)
\* a File: its name as the parts between the dots, its MIME type, its size
\* in bytes, and the width and height in pixels of the image it encodes
File(name, type, size, width, height) ==
    [name |-> name, type |-> type, size |-> size, width |-> width, height |-> height]
NoFile == NoObj(File(<<>>, "", 0, 0, 0))

\* the initial and the reset value of the create form
EmptyNewItem ==
    [name |-> Str(<<>>), category_id |-> Str(<<>>), quantity |-> 0,
     price |-> 0, threshold |-> 10, warehouse_id |-> Str(<<>>),
     thumbnail |-> Str(<<>>), file |-> NoFile]

\* openEditModal: the edit form of an enriched item
editFormOf(item) ==
    [id |-> item.id, name |-> item.name, category_id |-> item.category_id,
     quantity |-> item.quantity, price |-> item.price,
     threshold |-> item.threshold, warehouse_id |-> item.warehouse_id,
     thumbnail |-> item.thumbnail, file |-> NoFile]

\* a resolution that compares the id of the form with === as it is: the
\* value of a <select>, a string, equals no numeric id
nameFieldUnparsed(field, formId, list) ==
    IF Truthy(formId)
    THEN LET selected == findById(list, formId)
         IN IF selected.nul THEN <<>> ELSE <<[f |-> field, v |-> selected.v.name]>>
    ELSE <<>>

\* the name a form id resolves to: { category: name } when the id is set
\* and identifies an entry of the list, no field otherwise
nameField(field, formId, list) ==
    IF Truthy(formId)
    THEN LET selected == findById(list, parseInt(formId))
         IN IF selected.nul THEN <<>> ELSE <<[f |-> field, v |-> selected.v.name]>>
    ELSE <<>>

\* a record from a sequence of (field, value) pairs
RowOf(pairs) ==
    [f \in {pairs[i].f : i \in 1..Len(pairs)} |->
        (CHOOSE p \in {pairs[i] : i \in 1..Len(pairs)} : p.f = f).v]

\* a row that always carries both fields: category and warehouse are null
\* when the form id is empty or identifies no entry
storageRowWithNulls(form, thumbnailUrl, cats, whs) ==
    LET category == nameField("category", form.category_id, cats)
        warehouse == nameField("warehouse", form.warehouse_id, whs)
    IN [name |-> form.name, quantity |-> form.quantity, price |-> form.price,
        threshold |-> form.threshold, thumbnail |-> thumbnailUrl,
        refs |-> [category |-> IF category = <<>> THEN Null ELSE category[1].v,
                  warehouse |-> IF warehouse = <<>> THEN Null ELSE warehouse[1].v]]

\* insertData of addItem and updateData of saveEditedItem: the row sent to
\* the store for a form, with the thumbnail URL the handler settled on
storageRow(form, thumbnailUrl, cats, whs) ==
    [name |-> form.name, quantity |-> form.quantity, price |-> form.price,
     threshold |-> form.threshold, thumbnail |-> thumbnailUrl,
     refs |-> RowOf(nameField("category", form.category_id, cats)
                    \o nameField("warehouse", form.warehouse_id, whs))]

(***************************************************************************)
(* The remote store: three tables and a blob store.                        *)
(***************************************************************************)
\* a stock row as the table holds it
StockRow(id, name, quantity, threshold, category, warehouse) ==
    [id |-> id, name |-> name, quantity |-> quantity, price |-> 0,
     threshold |-> threshold, thumbnail |-> Null,
     category |-> category, warehouse |-> warehouse]

\* .ilike('name', `%${searchTerm}%`), .eq('category', ...), .eq('warehouse', ...):
\* each constraint is applied only when its state value is truthy
matches(row, term, fcat, fwh) ==
    /\ term # <<>> => ilike(row.name.s, <<37>> \o term \o <<37>>)
    /\ fcat # <<>> => row.category = Str(fcat)
    /\ fwh # <<>> => row.warehouse = Str(fwh)

\* .order('name'): the sequences that list the rows of a set by name
\* ascending; rows of equal name may come in any order
RECURSIVE orderByName(_)
orderByName(rows) ==
    IF rows = {} THEN {<<>>}
    ELSE LET least == {r \in rows : \A q \in rows : ~StrLess(q.name.s, r.name.s)}
         IN UNION {{<<r>> \o rest : rest \in orderByName(rows \ {r})} : r \in least}

\* .range(from, to): the inclusive window of a sequence, empty past its end
range(seq, from, to) ==
    IF from + 1 > Len(seq) THEN <<>>
    ELSE SubSeq(seq, from + 1, IF to + 1 > Len(seq) THEN Len(seq) ELSE to + 1)

\* the answers the stock table may give to the query built for
\* (term, fcat, fwh, page): the page of rows and the exact count
stockAnswers(table, term, fcat, fwh, page) ==
    LET hit == {r \in table : matches(r, term, fcat, fwh)}
        from == (page - 1) * itemsPerPage
        to == from + itemsPerPage - 1
    IN {[data |-> range(all, from, to), count |-> Cardinality(hit),
         from |-> from, to |-> to] : all \in orderByName(hit)}

\* .from('category').select('*').order('name') and the same for warehouse
catalogAnswers(table) == orderByName(table)

(***************************************************************************)
(* State.                                                                  *)
(***************************************************************************)
VARIABLES
    \* React state of InventoryPage, as of the latest render
    items, categories, warehouses, loading, uploading,
    currentPage, totalItems,
    searchTerm, filterCategory, filterWarehouse,
    newItem, editingItem, isEditModalOpen,
    itemToDelete, isDeleteModalOpen,
    isNewCategoryModalOpen, newCategory, isNewWarehouseModalOpen, newWarehouse,
    error,
    \* the remote tables and the blob store
    stock, categoryTable, warehouseTable, blobs,
    \* the asynchronous handlers suspended at an await, oldest first, each
    \* with the values its closure captured from the render that started it
    flows,
    \* the timeout of the delayed-search effect
    timer,
    \* history: user events so far, search/filter changes so far, the
    \* inventory requests sent so far, the current burst of search changes
    \* and the requests sent for it, what the last inventory answer
    \* published, and the failures the remote store may still produce
    events, changes, requests, burst, published, faults

query == <<currentPage, searchTerm, filterCategory, filterWarehouse>>
view == <<items, totalItems, loading>>
catalog == <<categories, warehouses>>
forms == <<newItem, editingItem, isEditModalOpen, itemToDelete, isDeleteModalOpen>>
catalogForms ==
    <<isNewCategoryModalOpen, newCategory, isNewWarehouseModalOpen, newWarehouse>>
remote == <<stock, categoryTable, warehouseTable, blobs>>
runtime == <<flows, timer>>
history == <<events, changes, requests, burst, published, faults>>

vars ==
    <<query, view, catalog, forms, catalogForms, uploading, error, remote, runtime,
      history>>

\* what a closure of a render captures of the state fetchInventory,
\* addItem and saveEditedItem read, with the event that caused the render
Closure(term, fcat, fwh, page, cats, whs, cause, change) ==
    [term |-> term, fcat |-> fcat, fwh |-> fwh, page |-> page,
     cats |-> cats, whs |-> whs, cause |-> cause, change |-> change]

NoGot == NoObj(<<>>)
NoEdit == NoObj(editFormOf(enhanceItem(StockRow(0, Str(<<>>), 0, 0, Null, Null), <<>>, <<>>)))
NoItem == NoObj(enhanceItem(StockRow(0, Str(<<>>), 0, 0, Null, Null), <<>>, <<>>))

NoRow == [none |-> TRUE]

\* a suspended handler: kind is the handler, pc the await it is suspended
\* at, snap and form the closure it runs with (form is the newItem,
\* editingItem or itemToDelete of its render), row the row it has sent to
\* the store, file the file it is re-encoding or uploading,
\* gotCats/gotWhs the lists its own catalog refresh returned,
\* req the number of the inventory request it is waiting for
Flow(kind, pc, snap, form) ==
    [kind |-> kind, pc |-> pc, snap |-> snap, form |-> form, row |-> NoRow,
     file |-> NoFile, gotCats |-> NoGot, gotWhs |-> NoGot, req |-> 0]

Remove(seq, i) == SubSeq(seq, 1, i - 1) \o SubSeq(seq, i + 1, Len(seq))

\* the time since the last change of the search term or of a filter, as
\* far as the pending timeout of that change tells it
sinceChange ==
    IF timer.on /\ timer.snap.cause # "mount" THEN DelayMs - timer.left ELSE DelayMs

\* no burst of search changes has been typed yet
NoBurst == [from |-> 0, loads |-> 0, delayed |-> 0]

\* fetchInventory sends its query: the request is counted, and counted for
\* the current burst when the closure that sends it is of a render of one of
\* the burst's keystrokes (kind tells loadData from the delayed search)
sendQuery(kind, snap) ==
    /\ requests' = requests + 1
    /\ burst' = IF burst.from > 0 /\ snap.cause = "search" /\ snap.change >= burst.from
                THEN IF kind = "timer"
                     THEN [burst EXCEPT !.delayed = @ + 1]
                     ELSE [burst EXCEPT !.loads = @ + 1]
                ELSE burst

(***************************************************************************)
(* Effects of a render.                                                    *)
(***************************************************************************)
\* useEffect(loadData, [currentPage, searchTerm, filterCategory,
\* filterWarehouse]): loadData runs up to the await of fetchCategories
loadData(snap) == Append(flows, Flow("load", "cat", snap, EmptyNewItem))

\* a delayed-search effect without cleanup that sets no new timeout while
\* one is pending
setDelaySearchKeeping(snap) ==
    IF timer.on THEN timer ELSE [on |-> TRUE, left |-> DelayMs, snap |-> snap]

\* useEffect(delaySearch, [searchTerm, filterCategory, filterWarehouse]):
\* the cleanup clears the pending timeout, the effect sets a new one
setDelaySearch(snap) == [on |-> TRUE, left |-> DelayMs, snap |-> snap]

NoTimer ==
    [on |-> FALSE, left |-> 0,
     snap |-> Closure(<<>>, <<>>, <<>>, 1, <<>>, <<>>, "mount", 0)]

\* Math.ceil(totalItems / itemsPerPage)
totalPages == (totalItems + itemsPerPage - 1) \div itemsPerPage

\* the page numbers of the numbered buttons of the pagination bar
pageNumbers ==
    LET shown == IF totalPages < 5 THEN totalPages ELSE 5
    IN {IF totalPages <= 5 THEN i + 1
        ELSE IF currentPage <= 3 THEN i + 1
        ELSE IF currentPage >= totalPages - 2 THEN totalPages - 4 + i
        ELSE currentPage - 2 + i : i \in 0..(shown - 1)}

\* the pages a click can ask changePage for: the numbered buttons,
\* Previous unless on page 1, Next unless on the last page
pageClicks ==
    pageNumbers
        \cup (IF currentPage = 1 THEN {} ELSE {currentPage - 1})
        \cup (IF currentPage = totalPages THEN {} ELSE {currentPage + 1})

(***************************************************************************)
(* User events on the search box, the filters and the pagination bar.      *)
(***************************************************************************)
\* the texts typed into the search box: "", "a", "b"
SearchTerms == {<<>>, <<97>>, <<98>>}

CanStart == events < MaxChanges /\ Len(flows) < MaxFlows

\* handleSearchChange, then the render and its two effects
handleSearchChange(value) ==
    /\ CanStart
    /\ value # searchTerm
    /\ LET snap == Closure(value, filterCategory, filterWarehouse, 1,
                           categories, warehouses, "search", changes + 1)
       IN /\ searchTerm' = value
          /\ currentPage' = 1
          /\ flows' = loadData(snap)
          /\ timer' = setDelaySearch(snap)
    /\ events' = events + 1
    /\ changes' = changes + 1
    /\ burst' = IF burst.from > 0 /\ sinceChange < DelayMs
                THEN burst
                ELSE [from |-> changes + 1, loads |-> 0, delayed |-> 0]
    /\ UNCHANGED catalogForms
    /\ UNCHANGED <<filterCategory, filterWarehouse, view, catalog, forms,
                   uploading, error, remote, requests, published, faults>>

\* onChange of the category filter: the value of one of its options
changeFilterCategory(value) ==
    /\ CanStart
    /\ value # filterCategory
    /\ value \in {<<>>} \cup {categories[i].name.s : i \in 1..Len(categories)}
    /\ LET snap == Closure(searchTerm, value, filterWarehouse, 1,
                           categories, warehouses, "filter", changes + 1)
       IN /\ filterCategory' = value
          /\ currentPage' = 1
          /\ flows' = loadData(snap)
          /\ timer' = setDelaySearch(snap)
    /\ events' = events + 1
    /\ changes' = changes + 1
    /\ burst' = NoBurst
    /\ UNCHANGED catalogForms
    /\ UNCHANGED <<searchTerm, filterWarehouse, view, catalog, forms,
                   uploading, error, remote, requests, published, faults>>

\* onChange of the warehouse filter
changeFilterWarehouse(value) ==
    /\ CanStart
    /\ value # filterWarehouse
    /\ value \in {<<>>} \cup {warehouses[i].name.s : i \in 1..Len(warehouses)}
    /\ LET snap == Closure(searchTerm, filterCategory, value, 1,
                           categories, warehouses, "filter", changes + 1)
       IN /\ filterWarehouse' = value
          /\ currentPage' = 1
          /\ flows' = loadData(snap)
          /\ timer' = setDelaySearch(snap)
    /\ events' = events + 1
    /\ changes' = changes + 1
    /\ burst' = NoBurst
    /\ UNCHANGED catalogForms
    /\ UNCHANGED <<searchTerm, filterCategory, view, catalog, forms,
                   uploading, error, remote, requests, published, faults>>

\* changePage from a button of the pagination bar, which is rendered only
\* while the table is (not loading, at least one item)
changePage(page) ==
    /\ CanStart
    /\ ~loading /\ items # <<>>
    /\ page \in pageClicks
    /\ ~(page < 1 \/ page > totalPages)
    /\ page # currentPage
    /\ currentPage' = page
    /\ flows' = loadData(Closure(searchTerm, filterCategory, filterWarehouse, page,
                                 categories, warehouses, "page", changes))
    /\ events' = events + 1
    /\ UNCHANGED catalogForms
    /\ UNCHANGED <<searchTerm, filterCategory, filterWarehouse, view, catalog,
                   forms, uploading, error, remote, timer, changes, requests,
                   burst, published, faults>>

(***************************************************************************)
(* Time and the delayed search.                                            *)
(***************************************************************************)
\* TickMs milliseconds pass; a timeout that is due runs before more time passes
Tick ==
    /\ timer.on /\ timer.left > 0
    /\ timer' = [timer EXCEPT !.left = IF @ > TickMs THEN @ - TickMs ELSE 0]
    /\ UNCHANGED catalogForms
    /\ UNCHANGED <<query, view, catalog, forms, uploading, error, remote, flows,
                   history>>

\* the timeout fires: fetchInventory of the closure that set it runs up to
\* its await (setLoading(true), query sent)
delaySearch ==
    /\ timer.on /\ timer.left = 0
    /\ Len(flows) < MaxFlows
    /\ loading' = TRUE
    /\ sendQuery("timer", timer.snap)
    /\ flows' = Append(flows, [Flow("timer", "inv", timer.snap, EmptyNewItem)
                                 EXCEPT !.req = requests + 1])
    /\ timer' = NoTimer
    /\ UNCHANGED catalogForms
    /\ UNCHANGED <<query, items, totalItems, catalog, forms, uploading, error,
                   remote, events, changes, published, faults>>

(***************************************************************************)
(* Answers of the remote store to the reads of a load.                     *)
(***************************************************************************)
\* what the last successful inventory answer published: the number of the
\* request it answered, the handler and the closure that ran fetchInventory
\* (its enrichment read snap.cats and snap.whs), the lists the catalog
\* refresh of the same loadData returned, and the newest request answered
\* so far
Published(req, kind, snap, gotCats, gotWhs, newest) ==
    [req |-> req, kind |-> kind, snap |-> snap,
     gotCats |-> gotCats, gotWhs |-> gotWhs, newest |-> newest]

\* a fetchCategories that lets its error escape: loadData ends there, and
\* neither the warehouses nor the inventory are fetched
fetchCategoriesThrowing(i) ==
    /\ i \in 1..Len(flows)
    /\ flows[i].pc = "cat"
    /\ \/ \E data \in catalogAnswers(categoryTable) :
            /\ categories' = data
            /\ flows' = [flows EXCEPT ![i].pc = "wh", ![i].gotCats = Some(data)]
            /\ UNCHANGED <<error, faults>>
       \/ /\ faults > 0
          /\ faults' = faults - 1
          /\ error' = "Error fetching categories"
          /\ flows' = Remove(flows, i)
          /\ categories' = categories
    /\ UNCHANGED catalogForms
    /\ UNCHANGED <<query, view, warehouses, forms, uploading, remote, timer,
                   events, changes, requests, burst, published>>

\* fetchCategories after its await: setCategories(data || []) or, in the
\* catch, setError; loadData then runs fetchWarehouses up to its await
fetchCategories(i) ==
    /\ i \in 1..Len(flows)
    /\ flows[i].pc = "cat"
    /\ \/ \E data \in catalogAnswers(categoryTable) :
            /\ categories' = data
            /\ flows' = [flows EXCEPT ![i].pc = "wh", ![i].gotCats = Some(data)]
            /\ UNCHANGED <<error, faults>>
       \/ /\ faults > 0
          /\ faults' = faults - 1
          /\ error' = "Error fetching categories"
          /\ flows' = [flows EXCEPT ![i].pc = "wh"]
          /\ categories' = categories
    /\ UNCHANGED catalogForms
    /\ UNCHANGED <<query, view, warehouses, forms, uploading, remote, timer,
                   events, changes, requests, burst, published>>

\* a loadData whose fetchInventory is the one of the first render: its
\* query is built from the values the page was mounted with
fetchWarehousesFirstQuery(i) ==
    /\ i \in 1..Len(flows)
    /\ flows[i].pc = "wh"
    /\ \/ \E data \in catalogAnswers(warehouseTable) :
            /\ warehouses' = data
            /\ flows' = [flows EXCEPT ![i].pc = "inv", ![i].gotWhs = Some(data),
                                      ![i].req = requests + 1,
                                      ![i].snap = NoTimer.snap]
            /\ UNCHANGED <<error, faults>>
       \/ /\ faults > 0
          /\ faults' = faults - 1
          /\ error' = "Error fetching warehouses"
          /\ flows' = [flows EXCEPT ![i].pc = "inv", ![i].req = requests + 1]
          /\ warehouses' = warehouses
    /\ loading' = TRUE
    /\ sendQuery(flows[i].kind, flows[i].snap)
    /\ UNCHANGED catalogForms
    /\ UNCHANGED <<query, items, totalItems, categories, forms, uploading, remote,
                   timer, events, changes, published>>

\* fetchWarehouses after its await; loadData then runs fetchInventory up to
\* its await (setLoading(true), query sent)
fetchWarehouses(i) ==
    /\ i \in 1..Len(flows)
    /\ flows[i].pc = "wh"
    /\ \/ \E data \in catalogAnswers(warehouseTable) :
            /\ warehouses' = data
            /\ flows' = [flows EXCEPT ![i].pc = "inv", ![i].gotWhs = Some(data),
                                      ![i].req = requests + 1]
            /\ UNCHANGED <<error, faults>>
       \/ /\ faults > 0
          /\ faults' = faults - 1
          /\ error' = "Error fetching warehouses"
          /\ flows' = [flows EXCEPT ![i].pc = "inv", ![i].req = requests + 1]
          /\ warehouses' = warehouses
    /\ loading' = TRUE
    /\ sendQuery(flows[i].kind, flows[i].snap)
    /\ UNCHANGED catalogForms
    /\ UNCHANGED <<query, items, totalItems, categories, forms, uploading, remote,
                   timer, events, changes, published>>

\* what the handler that awaited fetchInventory does when it returns:
\* addItem resets the create form, saveEditedItem and confirmDelete close
\* their dialogs, loadData and the delayed search do nothing more
afterFetch(kind) ==
    /\ newItem' = IF kind = "add" THEN EmptyNewItem ELSE newItem
    /\ isEditModalOpen' = IF kind = "save" THEN FALSE ELSE isEditModalOpen
    /\ isDeleteModalOpen' = IF kind = "delete" THEN FALSE ELSE isDeleteModalOpen
    /\ UNCHANGED <<editingItem, itemToDelete>>

\* a fetchInventory with a request fence: an answer to a request older than
\* one already answered is dropped, (items, totalItems) stay as they are
fetchInventoryFenced(i) ==
    /\ i \in 1..Len(flows)
    /\ flows[i].pc = "inv"
    /\ LET f == flows[i]
       IN \/ \E ans \in stockAnswers(stock, f.snap.term, f.snap.fcat, f.snap.fwh,
                                      f.snap.page) :
                /\ totalItems' = IF f.req < published.newest THEN totalItems
                                 ELSE ans.count
                /\ items' = IF f.req < published.newest THEN items
                            ELSE enhancedStockData(ans.data, f.snap.cats, f.snap.whs)
                /\ published' = Published(f.req, f.kind, f.snap, f.gotCats, f.gotWhs,
                                          IF f.req > published.newest THEN f.req
                                          ELSE published.newest)
                /\ UNCHANGED <<error, faults>>
          \/ /\ faults > 0
             /\ faults' = faults - 1
             /\ error' = "Error fetching inventory"
             /\ UNCHANGED <<totalItems, items, published>>
    /\ loading' = FALSE
    /\ afterFetch(flows[i].kind)
    /\ flows' = Remove(flows, i)
    /\ UNCHANGED catalogForms
    /\ UNCHANGED <<query, catalog, uploading, remote, timer, events, changes,
                   requests, burst>>

\* a fetchInventory that takes an answer without rows for a failure: it
\* sets the error and publishes nothing
fetchInventoryEmptyIsError(i) ==
    /\ i \in 1..Len(flows)
    /\ flows[i].pc = "inv"
    /\ LET f == flows[i]
       IN \/ \E ans \in stockAnswers(stock, f.snap.term, f.snap.fcat, f.snap.fwh,
                                      f.snap.page) :
                /\ totalItems' = IF ans.data = <<>> THEN totalItems ELSE ans.count
                /\ items' = IF ans.data = <<>> THEN items
                            ELSE enhancedStockData(ans.data, f.snap.cats, f.snap.whs)
                /\ published' = Published(f.req, f.kind, f.snap, f.gotCats, f.gotWhs,
                                          IF f.req > published.newest THEN f.req
                                          ELSE published.newest)
                /\ error' = IF ans.data = <<>> THEN "Error fetching inventory" ELSE error
                /\ UNCHANGED faults
          \/ /\ faults > 0
             /\ faults' = faults - 1
             /\ error' = "Error fetching inventory"
             /\ UNCHANGED <<totalItems, items, published>>
    /\ loading' = FALSE
    /\ afterFetch(flows[i].kind)
    /\ flows' = Remove(flows, i)
    /\ UNCHANGED catalogForms
    /\ UNCHANGED <<query, catalog, uploading, remote, timer, events, changes,
                   requests, burst>>

\* a fetchInventory that clears the error slot when its query is answered
fetchInventoryClearing(i) ==
    /\ i \in 1..Len(flows)
    /\ flows[i].pc = "inv"
    /\ LET f == flows[i]
       IN \/ \E ans \in stockAnswers(stock, f.snap.term, f.snap.fcat, f.snap.fwh,
                                      f.snap.page) :
                /\ totalItems' = ans.count
                /\ items' = enhancedStockData(ans.data, f.snap.cats, f.snap.whs)
                /\ published' = Published(f.req, f.kind, f.snap, f.gotCats, f.gotWhs,
                                          IF f.req > published.newest THEN f.req
                                          ELSE published.newest)
                /\ error' = ""
                /\ UNCHANGED faults
          \/ /\ faults > 0
             /\ faults' = faults - 1
             /\ error' = "Error fetching inventory"
             /\ UNCHANGED <<totalItems, items, published>>
    /\ loading' = FALSE
    /\ afterFetch(flows[i].kind)
    /\ flows' = Remove(flows, i)
    /\ UNCHANGED catalogForms
    /\ UNCHANGED <<query, catalog, uploading, remote, timer, events, changes,
                   requests, burst>>

\* fetchInventory after its await: on an answer setTotalItems(count || 0)
\* and setItems(enhancedStockData), with the categories and warehouses of
\* its closure; on an error setError; finally setLoading(false)
fetchInventory(i) ==
    /\ i \in 1..Len(flows)
    /\ flows[i].pc = "inv"
    /\ LET f == flows[i]
       IN \/ \E ans \in stockAnswers(stock, f.snap.term, f.snap.fcat, f.snap.fwh,
                                      f.snap.page) :
                /\ totalItems' = ans.count
                /\ items' = enhancedStockData(ans.data, f.snap.cats, f.snap.whs)
                /\ published' = Published(f.req, f.kind, f.snap, f.gotCats, f.gotWhs,
                                          IF f.req > published.newest THEN f.req
                                          ELSE published.newest)
                /\ UNCHANGED <<error, faults>>
          \/ /\ faults > 0
             /\ faults' = faults - 1
             /\ error' = "Error fetching inventory"
             /\ UNCHANGED <<totalItems, items, published>>
    /\ loading' = FALSE
    /\ afterFetch(flows[i].kind)
    /\ flows' = Remove(flows, i)
    /\ UNCHANGED catalogForms
    /\ UNCHANGED <<query, catalog, uploading, remote, timer, events, changes,
                   requests, burst>>

(***************************************************************************)
(* The create form, the edit dialog and the delete dialog.                 *)
(***************************************************************************)
\* parseFloat of the text of a number input: an optional sign and digits
parseFloat(text) ==
    LET neg == text # <<>> /\ Head(text) = 45
        body == IF neg THEN Tail(text) ELSE text
    IN IF body = <<>> \/ Head(body) \notin 48..57 THEN NaN
       ELSE Num((IF neg THEN -1 ELSE 1) * DigitsValue(body, 0))

\* a coercion that also clamps the number at 0: Math.max(0, parseFloat(value) || 0)
fieldValueClamped(name, value) ==
    IF name \in {"quantity", "price", "threshold"}
    THEN LET number == OrElse(parseFloat(value), Num(0)).n
         IN IF number < 0 THEN 0 ELSE number
    ELSE Str(value)

\* name === 'quantity' || name === 'price' || name === 'threshold'
\*   ? parseFloat(value) || 0 : value
fieldValue(name, value) ==
    IF name \in {"quantity", "price", "threshold"}
    THEN OrElse(parseFloat(value), Num(0)).n
    ELSE Str(value)

\* the value of the option of a <select> for an entry: its id as a string
optionValues(list) == {<<>>} \cup {Digits(list[i].id.n) : i \in 1..Len(list)}

\* what the user can enter into a form of the current render: the name
\* "n", an option of the category select, the quantity texts "7" and ""
formInputs ==
    {<<"name", <<110>>>>, <<"quantity", <<55>>>>, <<"quantity", <<>>>>}
        \cup {<<"category_id", v>> : v \in optionValues(categories)}

\* the texts a number input hands to its handler: "", "7", "-3", and "x"
\* for a text that is no number
NumberTexts == {<<>>, <<55>>, <<45, 51>>, <<120>>}

\* what the user can enter into the number fields of a form
numberInputs ==
    {<<name, text>> : name \in {"quantity", "price", "threshold"}, text \in NumberTexts}

NoDialog == ~isEditModalOpen /\ ~isDeleteModalOpen

HandlerClosure(cause) ==
    Closure(searchTerm, filterCategory, filterWarehouse, currentPage,
            categories, warehouses, cause, changes)

\* handleInputChange on a field of the create form
handleInputChange(name, value) ==
    /\ events < MaxEvents
    /\ NoDialog
    /\ <<name, value>> \in formInputs \cup numberInputs
    /\ newItem' = [newItem EXCEPT ![name] = fieldValue(name, value)]
    /\ newItem' # newItem
    /\ events' = events + 1
    /\ UNCHANGED catalogForms
    /\ UNCHANGED <<query, view, catalog, editingItem, isEditModalOpen, itemToDelete,
                   isDeleteModalOpen, uploading, error, remote, runtime, changes,
                   requests, burst, published, faults>>

\* openEditModal from the Edit button of a row of the table
openEditModal(item) ==
    /\ events < MaxEvents
    /\ NoDialog
    /\ ~loading
    /\ \E k \in 1..Len(items) : items[k] = item
    /\ editingItem' = Some(editFormOf(item))
    /\ isEditModalOpen' = TRUE
    /\ events' = events + 1
    /\ UNCHANGED catalogForms
    /\ UNCHANGED <<query, view, catalog, newItem, itemToDelete, isDeleteModalOpen,
                   uploading, error, remote, runtime, changes, requests, burst,
                   published, faults>>

\* onClose of the edit dialog and its Cancel button: setIsEditModalOpen(false);
\* editingItem stays as it is
closeEditModal ==
    /\ isEditModalOpen
    /\ isEditModalOpen' = FALSE
    /\ UNCHANGED catalogForms
    /\ UNCHANGED <<query, view, catalog, newItem, editingItem, itemToDelete,
                   isDeleteModalOpen, uploading, error, remote, runtime, history>>

\* handleEditChange on a field of the edit dialog
handleEditChange(name, value) ==
    /\ events < MaxEvents
    /\ isEditModalOpen /\ ~editingItem.nul
    /\ <<name, value>> \in formInputs \cup numberInputs
    /\ editingItem' = Some([editingItem.v EXCEPT ![name] = fieldValue(name, value)])
    /\ editingItem' # editingItem
    /\ events' = events + 1
    /\ UNCHANGED catalogForms
    /\ UNCHANGED <<query, view, catalog, newItem, isEditModalOpen, itemToDelete,
                   isDeleteModalOpen, uploading, error, remote, runtime, changes,
                   requests, burst, published, faults>>

\* openDeleteModal from the Delete button of a row of the table
openDeleteModal(item) ==
    /\ events < MaxEvents
    /\ NoDialog
    /\ ~loading
    /\ \E k \in 1..Len(items) : items[k] = item
    /\ itemToDelete' = Some(item)
    /\ isDeleteModalOpen' = TRUE
    /\ events' = events + 1
    /\ UNCHANGED catalogForms
    /\ UNCHANGED <<query, view, catalog, newItem, editingItem, isEditModalOpen,
                   uploading, error, remote, runtime, changes, requests, burst,
                   published, faults>>

\* a handler that sends its row at once, with the thumbnail of the form,
\* whether or not the form has a file
submitWriteFirst(kind, form) ==
    /\ Len(flows) < MaxFlows
    /\ events < MaxEvents
    /\ uploading' = uploading
    /\ flows' = Append(flows,
           [Flow(kind, "write", HandlerClosure(kind), form)
              EXCEPT !.row = storageRow(form, form.thumbnail, categories, warehouses)])
    /\ events' = events + 1

\* a handler that has a file runs uploadImage up to its await
\* (setUploading(true)); one that has none builds its row and sends it
submit(kind, form) ==
    /\ Len(flows) < MaxFlows
    /\ events < MaxEvents
    /\ IF form.file.nul
       THEN /\ uploading' = uploading
            /\ flows' = Append(flows,
                   [Flow(kind, "write", HandlerClosure(kind), form)
                      EXCEPT !.row = storageRow(form, form.thumbnail,
                                                categories, warehouses)])
       ELSE /\ uploading' = TRUE
            /\ flows' = Append(flows,
                   [Flow(kind, "upload", HandlerClosure(kind), form)
                      EXCEPT !.file = form.file])
    /\ events' = events + 1

\* addItem, from the submit of the create form (its button is disabled
\* while uploading, its name is required), up to its first await
addItem ==
    /\ NoDialog
    /\ ~uploading
    /\ newItem.name.s # <<>>
    /\ submit("add", newItem)
    /\ UNCHANGED catalogForms
    /\ UNCHANGED <<query, view, catalog, forms, error, remote, timer, changes,
                   requests, burst, published, faults>>

\* saveEditedItem, from the Save Changes button of the edit dialog (disabled
\* while uploading), up to its first await
saveEditedItem ==
    /\ isEditModalOpen /\ ~editingItem.nul
    /\ ~uploading
    /\ submit("save", editingItem.v)
    /\ UNCHANGED catalogForms
    /\ UNCHANGED <<query, view, catalog, forms, error, remote, timer, changes,
                   requests, burst, published, faults>>

\* confirmDelete, from the Delete button of the delete dialog, up to its await
confirmDelete ==
    /\ isDeleteModalOpen /\ ~itemToDelete.nul
    /\ Len(flows) < MaxFlows
    /\ events < MaxEvents
    /\ flows' = Append(flows, Flow("delete", "write", HandlerClosure("delete"),
                                   itemToDelete.v))
    /\ events' = events + 1
    /\ UNCHANGED catalogForms
    /\ UNCHANGED <<query, view, catalog, forms, uploading, error, remote, timer,
                   changes, requests, burst, published, faults>>

(***************************************************************************)
(* Answers of the remote store to the writes of a handler.                 *)
(***************************************************************************)
\* the public URL of the n-th uploaded blob
publicUrl(n) == Str(<<117>> \o Digits(n))

\* uploadImage after its await: the blob is stored under a fresh path and
\* its public URL returned, or the error is thrown to the handler, whose
\* catch puts it in the error slot; finally setUploading(false).  With the
\* URL the handler builds its row and sends it.
uploadImage(i) ==
    /\ i \in 1..Len(flows)
    /\ flows[i].pc = "upload"
    /\ \/ /\ blobs' = Append(blobs, flows[i].file.v)
          /\ flows' = [flows EXCEPT ![i].pc = "write",
                          ![i].row = storageRow(flows[i].form, publicUrl(Len(blobs) + 1),
                                                flows[i].snap.cats, flows[i].snap.whs)]
          /\ UNCHANGED <<error, faults>>
       \/ /\ faults > 0
          /\ faults' = faults - 1
          /\ error' = "Error uploading image"
          /\ flows' = Remove(flows, i)
          /\ blobs' = blobs
    /\ uploading' = FALSE
    /\ UNCHANGED catalogForms
    /\ UNCHANGED <<query, view, catalog, forms, stock, categoryTable,
                   warehouseTable, timer, events, changes, requests, burst,
                   published>>

\* the field of a sent row, or null when the row does not carry it
refOf(row, field) == IF field \in DOMAIN row.refs THEN row.refs[field] ELSE Null

\* insert(row): the stored row, with the id the store assigns
inserted(table, row) ==
    LET ids == {r.id : r \in table}
        id == IF ids = {} THEN 1 ELSE 1 + CHOOSE m \in ids : \A k \in ids : k <= m
    IN table \cup {[id |-> id, name |-> row.name, quantity |-> row.quantity,
                    price |-> row.price, threshold |-> row.threshold,
                    thumbnail |-> row.thumbnail,
                    category |-> refOf(row, "category"),
                    warehouse |-> refOf(row, "warehouse")]}

\* update(row).eq('id', id): the fields the row carries replace the stored ones
updated(table, id, row) ==
    {IF r.id # id THEN r
     ELSE [id |-> r.id, name |-> row.name, quantity |-> row.quantity,
           price |-> row.price, threshold |-> row.threshold,
           thumbnail |-> row.thumbnail,
           category |-> IF "category" \in DOMAIN row.refs THEN row.refs.category
                        ELSE r.category,
           warehouse |-> IF "warehouse" \in DOMAIN row.refs THEN row.refs.warehouse
                         ELSE r.warehouse] : r \in table}

\* delete().eq('id', id)
deleted(table, id) == {r \in table : r.id # id}

\* the stock table after the write of a handler
written(f) ==
    CASE f.kind = "add" -> inserted(stock, f.row)
      [] f.kind = "save" -> updated(stock, f.form.id, f.row)
      [] f.kind = "delete" -> deleted(stock, f.form.id)

\* a write handler that patches the list optimistically: after a successful
\* delete it also removes the row from items before it refetches
storeWritePatching(i, kind) ==
    /\ i \in 1..Len(flows)
    /\ flows[i].pc = "write"
    /\ flows[i].kind = kind
    /\ \/ /\ stock' = written(flows[i])
          /\ loading' = TRUE
          /\ sendQuery(flows[i].kind, flows[i].snap)
          /\ flows' = [flows EXCEPT ![i].pc = "inv", ![i].req = requests + 1]
          /\ items' = IF kind = "delete"
                      THEN SelectSeq(items, LAMBDA item : item.id # flows[i].form.id)
                      ELSE items
          /\ UNCHANGED <<error, faults>>
       \/ /\ faults > 0
          /\ faults' = faults - 1
          /\ error' = "Error writing stock"
          /\ flows' = Remove(flows, i)
          /\ UNCHANGED <<stock, loading, requests, burst, items>>
    /\ UNCHANGED catalogForms
    /\ UNCHANGED <<query, totalItems, catalog, forms, uploading,
                   categoryTable, warehouseTable, blobs, timer, events, changes,
                   published>>

\* a write handler that tidies up in a finally: after a failed write it
\* also resets the create form and closes the dialogs
storeWriteTidying(i, kind) ==
    /\ i \in 1..Len(flows)
    /\ flows[i].pc = "write"
    /\ flows[i].kind = kind
    /\ \/ /\ stock' = written(flows[i])
          /\ loading' = TRUE
          /\ sendQuery(flows[i].kind, flows[i].snap)
          /\ flows' = [flows EXCEPT ![i].pc = "inv", ![i].req = requests + 1]
          /\ UNCHANGED <<error, faults, forms>>
       \/ /\ faults > 0
          /\ faults' = faults - 1
          /\ error' = "Error writing stock"
          /\ flows' = Remove(flows, i)
          /\ afterFetch(kind)
          /\ UNCHANGED <<stock, loading, requests, burst>>
    /\ UNCHANGED catalogForms
    /\ UNCHANGED <<query, items, totalItems, catalog, uploading,
                   categoryTable, warehouseTable, blobs, timer, events, changes,
                   published>>

\* a handler after the await of its write: on success it runs
\* fetchInventory up to its await (setLoading(true), query sent); on an
\* error its catch puts the message in the error slot and the handler ends
storeWrite(i, kind) ==
    /\ i \in 1..Len(flows)
    /\ flows[i].pc = "write"
    /\ flows[i].kind = kind
    /\ \/ /\ stock' = written(flows[i])
          /\ loading' = TRUE
          /\ sendQuery(flows[i].kind, flows[i].snap)
          /\ flows' = [flows EXCEPT ![i].pc = "inv", ![i].req = requests + 1]
          /\ UNCHANGED <<error, faults>>
       \/ /\ faults > 0
          /\ faults' = faults - 1
          /\ error' = "Error writing stock"
          /\ flows' = Remove(flows, i)
          /\ UNCHANGED <<stock, loading, requests, burst>>
    /\ UNCHANGED catalogForms
    /\ UNCHANGED <<query, items, totalItems, catalog, forms, uploading,
                   categoryTable, warehouseTable, blobs, timer, events, changes,
                   published>>

\* addItem after the await of its insert
insertStock(i) == storeWrite(i, "add")

\* saveEditedItem after the await of its update
updateStock(i) == storeWrite(i, "save")

\* confirmDelete after the await of its delete
deleteStock(i) == storeWrite(i, "delete")

(***************************************************************************)
(* The dialogs that add a category or a warehouse.                         *)
(***************************************************************************)
\* the "+" button next to the category select: setIsNewCategoryModalOpen(true)
openNewCategoryModal ==
    /\ events < MaxEvents
    /\ ~isNewCategoryModalOpen /\ ~isNewWarehouseModalOpen
    /\ isNewCategoryModalOpen' = TRUE
    /\ events' = events + 1
    /\ UNCHANGED <<query, view, catalog, forms, newCategory, isNewWarehouseModalOpen,
                   newWarehouse, uploading, error, remote, runtime, changes,
                   requests, burst, published, faults>>

\* the "+" button next to the warehouse select
openNewWarehouseModal ==
    /\ events < MaxEvents
    /\ ~isNewCategoryModalOpen /\ ~isNewWarehouseModalOpen
    /\ isNewWarehouseModalOpen' = TRUE
    /\ events' = events + 1
    /\ UNCHANGED <<query, view, catalog, forms, isNewCategoryModalOpen, newCategory,
                   newWarehouse, uploading, error, remote, runtime, changes,
                   requests, burst, published, faults>>

\* onChange of the name input of the category dialog
setNewCategory(value) ==
    /\ events < MaxEvents
    /\ isNewCategoryModalOpen
    /\ value # newCategory
    /\ newCategory' = value
    /\ events' = events + 1
    /\ UNCHANGED <<query, view, catalog, forms, isNewCategoryModalOpen,
                   isNewWarehouseModalOpen, newWarehouse, uploading, error, remote,
                   runtime, changes, requests, burst, published, faults>>

\* onChange of the name input of the warehouse dialog
setNewWarehouse(value) ==
    /\ events < MaxEvents
    /\ isNewWarehouseModalOpen
    /\ value # newWarehouse
    /\ newWarehouse' = value
    /\ events' = events + 1
    /\ UNCHANGED <<query, view, catalog, forms, isNewCategoryModalOpen, newCategory,
                   isNewWarehouseModalOpen, uploading, error, remote, runtime,
                   changes, requests, burst, published, faults>>

\* the handler of a catalog dialog, suspended at its insert: the name it
\* sends, with the closure of the render of the submit
CatalogFlow(kind, name) ==
    Flow(kind, "insert", HandlerClosure(kind), [EmptyNewItem EXCEPT !.name = Str(name)])

\* addCategory, from the submit of the category dialog (its name is
\* required), up to its await
addCategory ==
    /\ isNewCategoryModalOpen
    /\ newCategory # <<>>
    /\ Len(flows) < MaxFlows
    /\ events < MaxEvents
    /\ flows' = Append(flows, CatalogFlow("addCategory", newCategory))
    /\ events' = events + 1
    /\ UNCHANGED <<query, view, catalog, forms, catalogForms, uploading, error,
                   remote, timer, changes, requests, burst, published, faults>>

\* addWarehouse, from the submit of the warehouse dialog, up to its await
addWarehouse ==
    /\ isNewWarehouseModalOpen
    /\ newWarehouse # <<>>
    /\ Len(flows) < MaxFlows
    /\ events < MaxEvents
    /\ flows' = Append(flows, CatalogFlow("addWarehouse", newWarehouse))
    /\ events' = events + 1
    /\ UNCHANGED <<query, view, catalog, forms, catalogForms, uploading, error,
                   remote, timer, changes, requests, burst, published, faults>>

\* .insert([{ name }]).select(): the created entry, with the id the store
\* assigns
created(table, name) ==
    LET ids == {e.id.n : e \in table}
    IN Entry(IF ids = {} THEN 1 ELSE 1 + CHOOSE m \in ids : \A k \in ids : k <= m,
             name.s)

\* addCategory after its await: setCategories([...categories, ...data])
\* with the categories of its closure, the name cleared and the dialog
\* closed; or, in the catch, setError
insertCategory(i) ==
    /\ i \in 1..Len(flows)
    /\ flows[i].kind = "addCategory" /\ flows[i].pc = "insert"
    /\ \/ LET entry == created(categoryTable, flows[i].form.name)
          IN /\ categoryTable' = categoryTable \cup {entry}
             /\ categories' = flows[i].snap.cats \o <<entry>>
             /\ newCategory' = <<>>
             /\ isNewCategoryModalOpen' = FALSE
             /\ UNCHANGED <<error, faults>>
       \/ /\ faults > 0
          /\ faults' = faults - 1
          /\ error' = "Error adding category"
          /\ UNCHANGED <<categoryTable, categories, newCategory, isNewCategoryModalOpen>>
    /\ flows' = Remove(flows, i)
    /\ UNCHANGED <<query, view, warehouses, forms, isNewWarehouseModalOpen,
                   newWarehouse, uploading, stock, warehouseTable, blobs, timer,
                   events, changes, requests, burst, published>>

\* addWarehouse after its await
insertWarehouse(i) ==
    /\ i \in 1..Len(flows)
    /\ flows[i].kind = "addWarehouse" /\ flows[i].pc = "insert"
    /\ \/ LET entry == created(warehouseTable, flows[i].form.name)
          IN /\ warehouseTable' = warehouseTable \cup {entry}
             /\ warehouses' = flows[i].snap.whs \o <<entry>>
             /\ newWarehouse' = <<>>
             /\ isNewWarehouseModalOpen' = FALSE
             /\ UNCHANGED <<error, faults>>
       \/ /\ faults > 0
          /\ faults' = faults - 1
          /\ error' = "Error adding warehouse"
          /\ UNCHANGED <<warehouseTable, warehouses, newWarehouse,
                         isNewWarehouseModalOpen>>
    /\ flows' = Remove(flows, i)
    /\ UNCHANGED <<query, view, categories, forms, isNewCategoryModalOpen,
                   newCategory, uploading, stock, categoryTable, blobs, timer,
                   events, changes, requests, burst, published>>

(***************************************************************************)
(* The error display.                                                      *)
(***************************************************************************)
\* the Dismiss button of the error display, rendered while error is truthy:
\* setError(null)
dismissError ==
    /\ error # ""
    /\ error' = ""
    /\ UNCHANGED <<query, view, catalog, forms, catalogForms, uploading, remote,
                   runtime, history>>

(***************************************************************************)
(* Images: handleFileChange and optimizeImage.                             *)
(***************************************************************************)
\* the sizes canvas.toBlob may give the re-encoded image
BlobSizes == {MAX_FILE_SIZE \div 2, MAX_FILE_SIZE, MAX_FILE_SIZE + 1}

\* the files the user may pick: a PNG within the budget, one of exactly
\* the budget, a large GIF over it, a small animated GIF over it, and a
\* text file
Files ==
    {File(<<"logo", "png">>, "image/png", MAX_FILE_SIZE \div 2, 64, 64),
     File(<<"edge", "png">>, "image/png", MAX_FILE_SIZE, 300, 200),
     File(<<"photo", "gif">>, "image/gif", 3 * MAX_FILE_SIZE, 4000, 3000),
     File(<<"anim", "gif">>, "image/gif", 2 * MAX_FILE_SIZE, 200, 100),
     File(<<"notes", "txt">>, "text/plain", 1, 0, 0)}

\* Math.sqrt((MAX_FILE_SIZE * 8) / 3) * 0.9, in tenths of a pixel rounded
\* down: the square root of MAX_FILE_SIZE * 8 / 3 * 0.81 * 100
maxDimension ==
    CHOOSE r \in 0..(MAX_FILE_SIZE \div 10) :
        r * r <= MAX_FILE_SIZE * 216 /\ (r + 1) * (r + 1) > MAX_FILE_SIZE * 216

\* canvas.width and canvas.height for an image of a width and a height: the
\* larger dimension becomes maxDimension, the other follows the aspect
\* ratio, and the canvas keeps the whole pixels of each
canvasSize(width, height) ==
    IF width > height
    THEN [width |-> maxDimension \div 10,
          height |-> (maxDimension * height) \div (width * 10)]
    ELSE [width |-> (maxDimension * width) \div (height * 10),
          height |-> maxDimension \div 10]

\* reader.onload and img.onload fire: the file is read and its content is
\* decoded as an image; no onerror handler is set, so for any other file
\* no callback of optimizeImage ever runs
decodes(file) == file.width > 0 /\ file.height > 0

\* the form a closure of handleFileChange spreads, with the file attached
withFile(form, file) == [form EXCEPT !.file = Some(file)]

\* a handleFileChange that re-encodes from the budget on: size >= MAX_FILE_SIZE
handleFileChangeAtBudget(file, isEdit) ==
    /\ events < MaxEvents
    /\ IF isEdit THEN isEditModalOpen /\ ~editingItem.nul ELSE NoDialog
    /\ LET form == IF isEdit THEN editingItem.v ELSE newItem
           kind == IF isEdit THEN "fileEdit" ELSE "fileNew"
       IN IF file.type \notin SUPPORTED_FORMATS
          THEN /\ error' = "Unsupported file format"
               /\ UNCHANGED <<newItem, editingItem, flows>>
          ELSE IF file.size >= MAX_FILE_SIZE
          THEN /\ Len(flows) < MaxFlows
               /\ flows' = Append(flows, [Flow(kind, "optimize", HandlerClosure(kind), form)
                                            EXCEPT !.file = Some(file)])
               /\ UNCHANGED <<newItem, editingItem, error>>
          ELSE /\ newItem' = IF isEdit THEN newItem ELSE withFile(form, file)
               /\ editingItem' = IF isEdit THEN Some(withFile(form, file)) ELSE editingItem
               /\ UNCHANGED <<flows, error>>
    /\ events' = events + 1
    /\ UNCHANGED catalogForms
    /\ UNCHANGED <<query, view, catalog, isEditModalOpen, itemToDelete,
                   isDeleteModalOpen, uploading, remote, timer, changes, requests,
                   burst, published, faults>>

\* a handleFileChange that does not validate the type of the file
handleFileChangeAnyType(file, isEdit) ==
    /\ events < MaxEvents
    /\ IF isEdit THEN isEditModalOpen /\ ~editingItem.nul ELSE NoDialog
    /\ LET form == IF isEdit THEN editingItem.v ELSE newItem
           kind == IF isEdit THEN "fileEdit" ELSE "fileNew"
       IN IF FALSE
          THEN /\ error' = "Unsupported file format"
               /\ UNCHANGED <<newItem, editingItem, flows>>
          ELSE IF file.size > MAX_FILE_SIZE
          THEN /\ Len(flows) < MaxFlows
               /\ flows' = Append(flows, [Flow(kind, "optimize", HandlerClosure(kind), form)
                                            EXCEPT !.file = Some(file)])
               /\ UNCHANGED <<newItem, editingItem, error>>
          ELSE /\ newItem' = IF isEdit THEN newItem ELSE withFile(form, file)
               /\ editingItem' = IF isEdit THEN Some(withFile(form, file)) ELSE editingItem
               /\ UNCHANGED <<flows, error>>
    /\ events' = events + 1
    /\ UNCHANGED catalogForms
    /\ UNCHANGED <<query, view, catalog, isEditModalOpen, itemToDelete,
                   isDeleteModalOpen, uploading, remote, timer, changes, requests,
                   burst, published, faults>>

\* handleFileChange(e, isEdit) up to the await of optimizeImage: a file of
\* an unsupported type is refused with an error; a file within the budget
\* is attached as it is; a larger one is handed to the re-encoding
handleFileChange(file, isEdit) ==
    /\ events < MaxEvents
    /\ IF isEdit THEN isEditModalOpen /\ ~editingItem.nul ELSE NoDialog
    /\ LET form == IF isEdit THEN editingItem.v ELSE newItem
           kind == IF isEdit THEN "fileEdit" ELSE "fileNew"
       IN IF file.type \notin SUPPORTED_FORMATS
          THEN /\ error' = "Unsupported file format"
               /\ UNCHANGED <<newItem, editingItem, flows>>
          ELSE IF file.size > MAX_FILE_SIZE
          THEN /\ Len(flows) < MaxFlows
               /\ flows' = Append(flows, [Flow(kind, "optimize", HandlerClosure(kind), form)
                                            EXCEPT !.file = Some(file)])
               /\ UNCHANGED <<newItem, editingItem, error>>
          ELSE /\ newItem' = IF isEdit THEN newItem ELSE withFile(form, file)
               /\ editingItem' = IF isEdit THEN Some(withFile(form, file)) ELSE editingItem
               /\ UNCHANGED <<flows, error>>
    /\ events' = events + 1
    /\ UNCHANGED catalogForms
    /\ UNCHANGED <<query, view, catalog, isEditModalOpen, itemToDelete,
                   isDeleteModalOpen, uploading, remote, timer, changes, requests,
                   burst, published, faults>>

\* an optimizeImage that falls back to the selected file when the
\* re-encoding gives no blob
optimizeImageOrOriginal(i) ==
    /\ i \in 1..Len(flows)
    /\ flows[i].pc = "optimize"
    /\ decodes(flows[i].file.v)
    /\ LET f == flows[i]
       IN \/ \E size \in BlobSizes :
                LET canvas == canvasSize(f.file.v.width, f.file.v.height)
                    optimizedFile == File(f.file.v.name, "image/jpeg", size,
                                          canvas.width, canvas.height)
                IN /\ newItem' = IF f.kind = "fileNew"
                                 THEN withFile(f.form, optimizedFile) ELSE newItem
                   /\ editingItem' = IF f.kind = "fileEdit"
                                     THEN Some(withFile(f.form, optimizedFile))
                                     ELSE editingItem
                   /\ UNCHANGED <<error, faults>>
          \/ /\ faults > 0
             /\ faults' = faults - 1
             /\ error' = "Failed to optimize image"
             /\ newItem' = IF f.kind = "fileNew"
                           THEN withFile(f.form, f.file.v) ELSE newItem
             /\ editingItem' = IF f.kind = "fileEdit"
                               THEN Some(withFile(f.form, f.file.v))
                               ELSE editingItem
    /\ flows' = Remove(flows, i)
    /\ UNCHANGED catalogForms
    /\ UNCHANGED <<query, view, catalog, isEditModalOpen, itemToDelete,
                   isDeleteModalOpen, uploading, remote, timer, events, changes,
                   requests, burst, published>>

\* optimizeImage settles, once the file is read and decoded: canvas.toBlob
\* gave a blob, which becomes a JPEG File of the same name that
\* handleFileChange attaches to the form of its closure, or gave none, and
\* the catch of handleFileChange sets the error
optimizeImage(i) ==
    /\ i \in 1..Len(flows)
    /\ flows[i].pc = "optimize"
    /\ decodes(flows[i].file.v)
    /\ LET f == flows[i]
       IN \/ \E size \in BlobSizes :
                LET canvas == canvasSize(f.file.v.width, f.file.v.height)
                    optimizedFile == File(f.file.v.name, "image/jpeg", size,
                                          canvas.width, canvas.height)
                IN /\ newItem' = IF f.kind = "fileNew"
                                 THEN withFile(f.form, optimizedFile) ELSE newItem
                   /\ editingItem' = IF f.kind = "fileEdit"
                                     THEN Some(withFile(f.form, optimizedFile))
                                     ELSE editingItem
                   /\ UNCHANGED <<error, faults>>
          \/ /\ faults > 0
             /\ faults' = faults - 1
             /\ error' = "Failed to optimize image"
             /\ UNCHANGED <<newItem, editingItem>>
    /\ flows' = Remove(flows, i)
    /\ UNCHANGED catalogForms
    /\ UNCHANGED <<query, view, catalog, isEditModalOpen, itemToDelete,
                   isDeleteModalOpen, uploading, remote, timer, events, changes,
                   requests, burst, published>>

(***************************************************************************)
(* The page after it is mounted: nothing loaded, loadData of the first     *)
(* render suspended in fetchCategories, the first delayed search pending.  *)
(***************************************************************************)
MountClosure == Closure(<<>>, <<>>, <<>>, 1, <<>>, <<>>, "mount", 0)

InitPage ==
    /\ items = <<>> /\ categories = <<>> /\ warehouses = <<>>
    /\ loading = TRUE /\ uploading = FALSE
    /\ currentPage = 1 /\ totalItems = 0
    /\ searchTerm = <<>> /\ filterCategory = <<>> /\ filterWarehouse = <<>>
    /\ newItem = EmptyNewItem
    /\ editingItem = NoEdit /\ isEditModalOpen = FALSE
    /\ itemToDelete = NoItem /\ isDeleteModalOpen = FALSE
    /\ isNewCategoryModalOpen = FALSE /\ newCategory = <<>>
    /\ isNewWarehouseModalOpen = FALSE /\ newWarehouse = <<>>
    /\ error = ""
    /\ blobs = <<>>
    /\ flows = <<Flow("load", "cat", MountClosure, EmptyNewItem)>>
    /\ timer = [on |-> TRUE, left |-> DelayMs, snap |-> MountClosure]
    /\ events = 0 /\ changes = 0 /\ requests = 0 /\ burst = NoBurst
    /\ published = Published(0, "", MountClosure, NoGot, NoGot, 0)
    /\ faults = MaxFaults

\* The catalog of the store: category "c" has id 0, category "d" id 1,
\* warehouse "w" id 1.
Categories0 == {Entry(0, <<99>>), Entry(1, <<100>>)}
Warehouses0 == {Entry(1, <<119>>)}

\* Stock rows "Aa", "ab" and "b", of category "c", of the orphaned category
\* "z" and of no category.
SyncStock ==
    {StockRow(1, Str(<<65, 97>>), 5, 5, Str(<<99>>), Str(<<119>>)),
     StockRow(2, Str(<<97, 98>>), 11, 10, Str(<<122>>), Null),
     StockRow(3, Str(<<98>>), 0, 10, Null, Str(<<119>>))}

InitSync ==
    /\ InitPage
    /\ stock = SyncStock
    /\ categoryTable = Categories0
    /\ warehouseTable = Warehouses0

NextSync ==
    \/ \E value \in SearchTerms : handleSearchChange(value)
    \/ Tick
    \/ delaySearch
    \/ \E i \in 1..MaxFlows : fetchCategories(i)
    \/ \E i \in 1..MaxFlows : fetchWarehouses(i)
    \/ \E i \in 1..MaxFlows : fetchInventory(i)

SpecSync == InitSync /\ [][NextSync]_vars

(***************************************************************************)
(* The forms and dialogs of a page whose store holds two rows.             *)
(***************************************************************************)
FormStock ==
    {StockRow(1, Str(<<65, 97>>), 5, 5, Str(<<100>>), Str(<<119>>)),
     StockRow(2, Str(<<98>>), 11, 10, Str(<<122>>), Null)}

InitForm ==
    /\ InitPage
    /\ stock = FormStock
    /\ categoryTable = Categories0
    /\ warehouseTable = Warehouses0

Loads ==
    \/ Tick
    \/ delaySearch
    \/ \E i \in 1..MaxFlows : fetchCategories(i)
    \/ \E i \in 1..MaxFlows : fetchWarehouses(i)
    \/ \E i \in 1..MaxFlows : fetchInventory(i)

NextForm ==
    \/ Loads
    \/ \E input \in formInputs : handleInputChange(input[1], input[2])
    \/ \E input \in formInputs : handleEditChange(input[1], input[2])
    \/ \E k \in 1..Len(items) : openEditModal(items[k])
    \/ \E k \in 1..Len(items) : openDeleteModal(items[k])
    \/ addItem
    \/ saveEditedItem
    \/ confirmDelete
    \/ \E i \in 1..MaxFlows : insertStock(i)
    \/ \E i \in 1..MaxFlows : updateStock(i)
    \/ \E i \in 1..MaxFlows : deleteStock(i)

SpecForm == InitForm /\ [][NextForm]_vars

NextImage ==
    \/ Loads
    \/ dismissError
    \/ \E input \in formInputs : handleInputChange(input[1], input[2])
    \/ \E k \in 1..Len(items) : openEditModal(items[k])
    \/ \E file \in Files, isEdit \in BOOLEAN : handleFileChange(file, isEdit)
    \/ \E i \in 1..MaxFlows : optimizeImage(i)
    \/ addItem
    \/ saveEditedItem
    \/ \E i \in 1..MaxFlows : uploadImage(i)
    \/ \E i \in 1..MaxFlows : insertStock(i)
    \/ \E i \in 1..MaxFlows : updateStock(i)

SpecImage == InitForm /\ [][NextImage]_vars

(***************************************************************************)
(* The edit dialog, opened on one row after another, with the images       *)
(* picked in it.                                                           *)
(***************************************************************************)
\* the images picked in the edit dialog: the two over the budget
DialogFiles == {file \in Files : file.size > MAX_FILE_SIZE}

NextDialog ==
    \/ Loads
    \/ \E k \in 1..Len(items) : openEditModal(items[k])
    \/ closeEditModal
    \/ \E file \in DialogFiles : handleFileChange(file, TRUE)
    \/ \E i \in 1..MaxFlows : optimizeImage(i)
    \/ saveEditedItem
    \/ \E i \in 1..MaxFlows : uploadImage(i)
    \/ \E i \in 1..MaxFlows : updateStock(i)

SpecDialog == InitForm /\ [][NextDialog]_vars

(***************************************************************************)
(* The create form with images picked in it, among them a file that is no  *)
(* image, in a browser that runs every callback that is due.               *)
(***************************************************************************)
\* the files picked: the two images over the budget, the one within it, and
\* "torn.png", a file over the budget with the type of a PNG whose content
\* decodes to no image
DecodeFiles ==
    {file \in Files : file.type \in SUPPORTED_FORMATS /\ file.size # MAX_FILE_SIZE}
        \cup {File(<<"torn", "png">>, "image/png", 2 * MAX_FILE_SIZE, 0, 0)}

NextDecode ==
    \/ Loads
    \/ \E file \in DecodeFiles : handleFileChange(file, FALSE)
    \/ \E i \in 1..MaxFlows : optimizeImage(i)

\* the callbacks of a file that is read and decoded are run, and so is the
\* callback of canvas.toBlob; the requests of the loads are answered
Decoded == WF_vars(Loads) /\ WF_vars(\E i \in 1..MaxFlows : optimizeImage(i))

SpecDecode == InitForm /\ [][NextDecode]_vars /\ Decoded

(***************************************************************************)
(* The catalog dialogs over the same store.                                *)
(***************************************************************************)
\* the names typed into a catalog dialog: "a", which sorts before every
\* entry of the store, and "y", which sorts after them
NewNames == {<<97>>, <<121>>}

NextCatalog ==
    \/ Loads
    \/ openNewCategoryModal
    \/ openNewWarehouseModal
    \/ \E value \in NewNames : setNewCategory(value)
    \/ \E value \in NewNames : setNewWarehouse(value)
    \/ addCategory
    \/ addWarehouse
    \/ \E i \in 1..MaxFlows : insertCategory(i)
    \/ \E i \in 1..MaxFlows : insertWarehouse(i)

SpecCatalog == InitForm /\ [][NextCatalog]_vars

(***************************************************************************)
(* The number fields of the create form and of the edit dialog.            *)
(***************************************************************************)
NextNumbers ==
    \/ Loads
    \/ handleInputChange("name", <<110>>)
    \/ \E input \in numberInputs : handleInputChange(input[1], input[2])
    \/ \E input \in numberInputs : handleEditChange(input[1], input[2])
    \/ \E k \in 1..Len(items) : openEditModal(items[k])
    \/ addItem
    \/ saveEditedItem
    \/ \E i \in 1..MaxFlows : insertStock(i)
    \/ \E i \in 1..MaxFlows : updateStock(i)

SpecNumbers == InitForm /\ [][NextNumbers]_vars

(***************************************************************************)
(* Paging, searching and filtering over a store of eleven rows, one more   *)
(* than a page holds, the last two of the same name.                       *)
(***************************************************************************)
CategoryNames == {<<99>>, <<100>>}
WarehouseNames == {<<119>>}

PagingStock ==
    {StockRow(1, Str(<<65>>), 5, 5, Str(<<99>>), Str(<<119>>)),
     StockRow(2, Str(<<97, 95, 98>>), 5, 5, Str(<<100>>), Null),
     StockRow(3, Str(<<98>>), 5, 5, Null, Str(<<119>>)),
     StockRow(4, Str(<<99>>), 5, 5, Str(<<99>>), Null),
     StockRow(5, Str(<<100>>), 5, 5, Str(<<100>>), Str(<<119>>)),
     StockRow(6, Str(<<101>>), 5, 5, Null, Null),
     StockRow(7, Str(<<102>>), 5, 5, Str(<<99>>), Str(<<119>>)),
     StockRow(8, Str(<<103>>), 5, 5, Str(<<100>>), Null),
     StockRow(9, Str(<<104>>), 5, 5, Str(<<122>>), Str(<<119>>)),
     StockRow(10, Str(<<107>>), 5, 5, Str(<<99>>), Str(<<119>>)),
     StockRow(11, Str(<<107>>), 5, 5, Null, Null)}

\* the texts typed into the search box: "", "a", "_"
PagingTerms == {<<>>, <<97>>, <<95>>}

\* the page after it is mounted over the eleven rows, with a store that
\* answers every request
InitPaging ==
    /\ items = <<>> /\ categories = <<>> /\ warehouses = <<>>
    /\ loading = TRUE /\ uploading = FALSE
    /\ currentPage = 1 /\ totalItems = 0
    /\ searchTerm = <<>> /\ filterCategory = <<>> /\ filterWarehouse = <<>>
    /\ newItem = EmptyNewItem
    /\ editingItem = NoEdit /\ isEditModalOpen = FALSE
    /\ itemToDelete = NoItem /\ isDeleteModalOpen = FALSE
    /\ isNewCategoryModalOpen = FALSE /\ newCategory = <<>>
    /\ isNewWarehouseModalOpen = FALSE /\ newWarehouse = <<>>
    /\ error = ""
    /\ stock = PagingStock
    /\ categoryTable = Categories0
    /\ warehouseTable = Warehouses0
    /\ blobs = <<>>
    /\ flows = <<Flow("load", "cat", MountClosure, EmptyNewItem)>>
    /\ timer = [on |-> TRUE, left |-> DelayMs, snap |-> MountClosure]
    /\ events = 0 /\ changes = 0 /\ requests = 0 /\ burst = NoBurst
    /\ published = Published(0, "", MountClosure, NoGot, NoGot, 0)
    /\ faults = 0

\* pages are changed and the first row of the page shown is deleted
NextPaging ==
    \/ Loads
    \/ \E page \in 1..(MaxChanges + 1) : changePage(page)
    \/ openDeleteModal(items[1])
    \/ confirmDelete
    \/ \E i \in 1..MaxFlows : deleteStock(i)

SpecPaging == InitPaging /\ [][NextPaging]_vars

\* the search term and the filters are changed
NextQuery ==
    \/ Loads
    \/ \E value \in PagingTerms : handleSearchChange(value)
    \/ \E value \in CategoryNames \cup {<<>>} : changeFilterCategory(value)
    \/ \E value \in WarehouseNames \cup {<<>>} : changeFilterWarehouse(value)

SpecQuery == InitPaging /\ [][NextQuery]_vars

(***************************************************************************)
(* The same page with a store that answers every request, a clock that     *)
(* goes on and timeouts that fire when they are due.                       *)
(***************************************************************************)
\* the texts typed into the search box: "", "a"
RefetchTerms == {<<>>, <<97>>}

NextRefetch ==
    \/ Loads
    \/ \E value \in RefetchTerms : handleSearchChange(value)
    \/ \E value \in {<<>>, <<99>>} : changeFilterCategory(value)
    \/ \E value \in {<<>>, <<119>>} : changeFilterWarehouse(value)
    \/ \E page \in 1..(MaxChanges + 1) : changePage(page)

\* every request the page has sent is answered in the end (faults = 0, so
\* with success), time passes and a timeout that is due fires: the steps
\* of Loads are not put off for ever
Answered == WF_vars(Loads)

SpecRefetch == InitPaging /\ [][NextRefetch]_vars /\ Answered

(***************************************************************************)
(* Reconciliation of stored rows with the catalog: a page that shows any   *)
(* catalog and whose delayed search is about to enrich any stored row,     *)
(* with any ids chosen earlier in the create form.                         *)
(***************************************************************************)
\* the lists of at most two entries with distinct ids and distinct names
CatalogLists(names) ==
    LET entries == {Entry(id, name) : id \in 0..MaxId, name \in names}
    IN {<<>>} \cup {<<e>> : e \in entries}
         \cup {<<pair[1], pair[2]>> :
                  pair \in {p \in entries \X entries :
                               p[1].id # p[2].id /\ p[1].name # p[2].name}}

\* stored rows: a category in the catalog names, the orphaned "z", or none;
\* a warehouse in the catalog names, the orphaned "y", or none
StoredRows ==
    {[StockRow(1, Str(<<65, 97>>), 5, 5, category, warehouse) EXCEPT !.thumbnail = thumbnail] :
        category \in {Null} \cup {Str(n) : n \in CategoryNames \cup {<<122>>}},
        warehouse \in {Null} \cup {Str(n) : n \in WarehouseNames \cup {<<121>>}},
        thumbnail \in {Null, Str(<<116>>)}}

\* create forms: the name "n" and the value of any option the selects have
\* offered, or none
CreateForms ==
    {[EmptyNewItem EXCEPT !.name = Str(<<110>>), !.category_id = Str(cid),
                          !.warehouse_id = Str(wid)] :
        cid \in {<<>>} \cup {Digits(id) : id \in 0..(MaxId + 1)},
        wid \in {<<>>} \cup {Digits(id) : id \in 0..MaxId}}

InitReconcile ==
    /\ categories \in CatalogLists(CategoryNames)
    /\ warehouses \in CatalogLists(WarehouseNames)
    /\ categoryTable = {categories[i] : i \in 1..Len(categories)}
    /\ warehouseTable = {warehouses[i] : i \in 1..Len(warehouses)}
    /\ stock \in {{row} : row \in StoredRows}
    /\ newItem \in CreateForms
    /\ items = <<>> /\ totalItems = 0 /\ loading = TRUE /\ uploading = FALSE
    /\ currentPage = 1
    /\ searchTerm = <<>> /\ filterCategory = <<>> /\ filterWarehouse = <<>>
    /\ editingItem = NoEdit /\ isEditModalOpen = FALSE
    /\ itemToDelete = NoItem /\ isDeleteModalOpen = FALSE
    /\ isNewCategoryModalOpen = FALSE /\ newCategory = <<>>
    /\ isNewWarehouseModalOpen = FALSE /\ newWarehouse = <<>>
    /\ error = ""
    /\ blobs = <<>>
    /\ flows = <<[Flow("timer", "inv",
                       Closure(<<>>, <<>>, <<>>, 1, categories, warehouses, "filter", 1),
                       EmptyNewItem) EXCEPT !.req = 1]>>
    /\ timer = NoTimer
    /\ events = 0 /\ changes = 1 /\ requests = 1 /\ burst = NoBurst
    /\ published = Published(0, "", MountClosure, NoGot, NoGot, 0)
    /\ faults = 0

NextReconcile ==
    \/ \E i \in 1..MaxFlows : fetchInventory(i)
    \/ \E k \in 1..Len(items) : openEditModal(items[k])
    \/ \E value \in optionValues(categories) : handleEditChange("category_id", value)
    \/ saveEditedItem
    \/ addItem

SpecReconcile == InitReconcile /\ [][NextReconcile]_vars

(***************************************************************************)
(* Properties of the synchronisation of the page with the store            *)
(* (SpecSync).                                                             *)
(***************************************************************************)
\* the burst of search changes is over: its timeout has fired and every
\* load its keystrokes started has sent its inventory query
burstSettled ==
    /\ burst.from > 0
    /\ ~timer.on
    /\ \A i \in 1..Len(flows) :
          ~(/\ flows[i].snap.cause = "search"
            /\ flows[i].snap.change >= burst.from
            /\ flows[i].pc \in {"cat", "wh"})

\* C1: a burst of search changes, each less than 500 ms after the one
\* before, causes exactly one refetch of the inventory, the delayed one
\* issued 500 ms after the last change: no render of the burst sends
\* another inventory query, the delayed search sends at most one, and
\* exactly one once the burst is over.
C1_BurstOneDelayedRefetch ==
    burst.from > 0 =>
        /\ burst.loads = 0
        /\ burst.delayed <= 1
        /\ (burstSettled => burst.delayed = 1)

\* C2: within one load cycle the enrichment uses the category and
\* warehouse lists that the same cycle has just refreshed: the items a
\* load publishes carry, for every category and warehouse name, what the
\* lists its own refresh returned resolve that name to.
C2_EnrichmentUsesRefreshedLists ==
    published.kind = "load" =>
        \A k \in 1..Len(items) :
            /\ (~published.gotCats.nul /\ ~items[k].category.nul) =>
                  items[k].category
                      = resolveByName(published.gotCats.v, items[k].category.v.name)
            /\ (~published.gotWhs.nul /\ ~items[k].warehouse.nul) =>
                  items[k].warehouse
                      = resolveByName(published.gotWhs.v, items[k].warehouse.v.name)

\* C3: when fetches overlap, the items and the total count shown are those
\* of the fetch whose answer arrived last, whichever was issued last: they
\* are an answer of the store to the query of that fetch's closure,
\* enriched with that closure's lists.
C3_LastAnswerWins ==
    published.req > 0 =>
        \E ans \in stockAnswers(stock, published.snap.term, published.snap.fcat,
                                published.snap.fwh, published.snap.page) :
            /\ totalItems = ans.count
            /\ items = enhancedStockData(ans.data, published.snap.cats,
                                         published.snap.whs)

\* two fetches overlapped and the one issued first was answered last: the
\* page shows the results of a search term that is no longer in the box
C3_StaleAnswerShown ==
    /\ published.req > 0
    /\ published.req < published.newest
    /\ published.snap.term # searchTerm
    /\ flows = <<>>
    /\ \A ans \in stockAnswers(stock, searchTerm, filterCategory, filterWarehouse,
                               currentPage) : totalItems # ans.count

(***************************************************************************)
(* Properties of the writes (SpecForm).                                    *)
(***************************************************************************)
\* this step is the success of the write that handler i was waiting for:
\* the handler goes on
wrote(i) ==
    /\ i \in 1..Len(flows)
    /\ flows[i].pc = "write"
    /\ Len(flows') = Len(flows)
    /\ flows'[i].pc # "write"

\* this step is the failure of a write: the handler that waited for it ends
writeFailed ==
    \E i \in 1..Len(flows) : flows[i].pc = "write" /\ flows' = Remove(flows, i)

\* this step publishes the answer to the inventory query of a suspended
\* fetchInventory, enriched with the lists of its closure
publishedByFetch ==
    \E i \in 1..Len(flows) :
        /\ flows[i].pc = "inv"
        /\ flows' = Remove(flows, i)
        /\ \E ans \in stockAnswers(stock, flows[i].snap.term, flows[i].snap.fcat,
                                   flows[i].snap.fwh, flows[i].snap.page) :
              /\ totalItems' = ans.count
              /\ items' = enhancedStockData(ans.data, flows[i].snap.cats,
                                            flows[i].snap.whs)

\* C4, as the specification states it: after every successful create,
\* update or delete the full load sequence is re-run, starting with the
\* category refresh, and the items change only through the result of a
\* reload.
C4_FullLoadAfterWrite ==
    [][/\ \A i \in 1..MaxFlows : wrote(i) => flows'[i].pc = "cat"
       /\ (<<items, totalItems>>' # <<items, totalItems>>) => publishedByFetch]_vars

\* C4, as the code has it: after every successful create, update or delete
\* the handler re-runs fetchInventory alone (the inventory query, then the
\* enrichment with the category and warehouse lists of the handler's own
\* render), without a refresh of the categories or the warehouses, and the
\* items change only through the result of a fetchInventory, never through
\* a local patch of the list.
C4_RefetchAfterWrite ==
    [][/\ \A i \in 1..MaxFlows :
             wrote(i) =>
                 /\ flows'[i].pc = "inv"
                 /\ flows'[i].snap = flows[i].snap
                 /\ flows'[i].gotCats.nul /\ flows'[i].gotWhs.nul
                 /\ requests' = requests + 1
                 /\ loading'
                 /\ UNCHANGED <<catalog, items, totalItems>>
       /\ (<<items, totalItems>>' # <<items, totalItems>>) => publishedByFetch]_vars

\* a delete succeeded and the refetch of confirmDelete has published the
\* one row that is left
C4_ReloadedAfterDelete ==
    /\ published.kind = "delete"
    /\ Cardinality(stock) = 1
    /\ totalItems = 1 /\ Len(items) = 1
    /\ published.gotCats.nul

\* C5: when the write of a create, update or delete fails, the items, the
\* total count, the current page and the filters are unchanged, no refetch
\* is issued, the error slot holds the failure message, and the form or
\* dialog that issued the write stays as it is, open and with its contents.
C5_FailedWriteLeavesState ==
    [][writeFailed =>
          /\ UNCHANGED <<items, totalItems, currentPage, searchTerm,
                         filterCategory, filterWarehouse>>
          /\ requests' = requests
          /\ \A i \in 1..Len(flows') : flows'[i].pc = "inv" =>
                \E j \in 1..Len(flows) : flows[j] = flows'[i]
          /\ error' = "Error writing stock"
          /\ UNCHANGED forms]_vars

\* the update of an edited row has failed: the edit dialog is still open
\* with the edited quantity, the store and the items are as they were
C5_FailedUpdateKeepsDialog ==
    /\ error = "Error writing stock"
    /\ isEditModalOpen /\ ~editingItem.nul
    /\ editingItem.v.quantity = 7
    /\ stock = FormStock
    /\ flows = <<>>
    /\ \A k \in 1..Len(items) : items[k].quantity # 7

(***************************************************************************)
(* Properties of the images (SpecImage).                                   *)
(***************************************************************************)
\* C10: every image file handed to the upload of the blob store by a
\* create or an update is of at most MAX_FILE_SIZE bytes, whatever the user
\* selected and whatever size the re-encoding gave: the files being
\* uploaded and the blobs stored are all within the budget.
C10_UploadsWithinBudget ==
    /\ \A i \in 1..Len(flows) :
          flows[i].pc = "upload" => flows[i].file.v.size <= MAX_FILE_SIZE
    /\ \A k \in 1..Len(blobs) : blobs[k].size <= MAX_FILE_SIZE

(***************************************************************************)
(* Properties of the reconciliation of rows and catalog (SpecReconcile).   *)
(***************************************************************************)
\* the stored row an item or a form was made from
rowOf(id) == CHOOSE r \in stock : r.id = id

\* the entries of a list with the name
named(list, name) == {list[j] : j \in {j \in 1..Len(list) : list[j].name = name}}

\* the id of a form identifies the entry: it is the entry's id, or the
\* value of the entry's option in a <select>
identifies(formId, entry) ==
    \/ formId = entry.id
    \/ formId.t = "str" /\ formId.s = Digits(entry.id.n)
identified(list, formId) ==
    {list[j] : j \in {j \in 1..Len(list) : identifies(formId, list[j])}}

\* the edit dialog holds the item of its row as openEditModal loaded it,
\* and the names of the row each match an entry of the lists
unchangedEdit(f) ==
    /\ f.kind = "save" /\ f.pc = "write"
    /\ \E k \in 1..Len(items) : f.form = editFormOf(items[k])
    /\ named(f.snap.cats, rowOf(f.form.id).category) # {}
    /\ named(f.snap.whs, rowOf(f.form.id).warehouse) # {}

\* C6: round trip.  For every stored row and every catalog in which the
\* category and the warehouse name of the row each match an entry:
\* enriching the row, loading it into the edit form and saving it unchanged
\* sends a row whose name, quantity, price, threshold, thumbnail, category
\* and warehouse equal those of the stored row.
C6_RoundTrip ==
    \A i \in 1..Len(flows) :
        unchangedEdit(flows[i]) =>
            LET r == rowOf(flows[i].form.id)
                sent == flows[i].row
            IN /\ sent.name = r.name
               /\ sent.quantity = r.quantity
               /\ sent.price = r.price
               /\ sent.threshold = r.threshold
               /\ sent.thumbnail = r.thumbnail
               /\ "category" \in DOMAIN sent.refs /\ sent.refs.category = r.category
               /\ "warehouse" \in DOMAIN sent.refs /\ sent.refs.warehouse = r.warehouse

\* C7: for every stored row whose non-null category (warehouse) name
\* matches no entry of the list used for the enrichment, the enriched item
\* carries a category (warehouse) object with id null and the name of the
\* row; no row of the answer is dropped.
C7_OrphanKeepsName ==
    published.req > 0 =>
        /\ Len(items) = Cardinality(stock)
        /\ \A k \in 1..Len(items) :
              LET r == rowOf(items[k].id)
              IN /\ (r.category # Null /\ named(published.snap.cats, r.category) = {})
                      => items[k].category = Some([id |-> Null, name |-> r.category])
                 /\ (r.warehouse # Null /\ named(published.snap.whs, r.warehouse) = {})
                      => items[k].warehouse = Some([id |-> Null, name |-> r.warehouse])

\* a row of the orphaned category "z" and the orphaned warehouse "y" has
\* been enriched with a catalog of two categories and a warehouse
C7_OrphanEnriched ==
    /\ published.req > 0
    /\ Len(published.snap.cats) = 2 /\ Len(published.snap.whs) = 1
    /\ Len(items) = 1
    /\ rowOf(items[1].id).category = Str(<<122>>)
    /\ rowOf(items[1].id).warehouse = Str(<<121>>)
    /\ items[1].category.v.name = Str(<<122>>)

\* C8: for every stored row whose category (warehouse) name is the name of
\* an entry of the list used for the enrichment, the category (warehouse)
\* of the enriched item is that entry and its category_id (warehouse_id)
\* is the id of that entry, whatever the id.
C8_MatchBindsId ==
    published.req > 0 =>
        \A k \in 1..Len(items) :
            LET r == rowOf(items[k].id)
            IN /\ \A e \in named(published.snap.cats, r.category) :
                     items[k].category = Some(e) /\ items[k].category_id = e.id
               /\ \A e \in named(published.snap.whs, r.warehouse) :
                     items[k].warehouse = Some(e) /\ items[k].warehouse_id = e.id

\* the row sent for a form carries the name of the entry the id of the
\* form identifies, and no such field when the id identifies none
carriesName(sent, field, formId, list) ==
    formId # Str(<<>>) =>
        IF identified(list, formId) = {}
        THEN field \notin DOMAIN sent.refs
        ELSE /\ field \in DOMAIN sent.refs
             /\ \E e \in identified(list, formId) : sent.refs[field] = e.name

\* C9: when a create or an update is submitted with category_id set, the
\* row sent carries the name of the entry of the current category list
\* that the id identifies, and carries no category field when the id
\* identifies none, the row being sent all the same; likewise for
\* warehouse_id and the warehouse field.
C9_SubmittedIdResolves ==
    \A i \in 1..Len(flows) :
        (flows[i].kind \in {"add", "save"} /\ flows[i].pc = "write") =>
            LET f == flows[i]
            IN /\ f.row.name = f.form.name
               /\ carriesName(f.row, "category", f.form.category_id, f.snap.cats)
               /\ carriesName(f.row, "warehouse", f.form.warehouse_id, f.snap.whs)

\* a create was submitted with the option of a category chosen and with a
\* warehouse id that identifies no entry: the row sent carries the
\* category name and no warehouse
C9_ResolvedAndUnresolved ==
    \E i \in 1..Len(flows) :
        /\ flows[i].kind = "add" /\ flows[i].pc = "write"
        /\ flows[i].form.category_id.t = "str"
        /\ identified(flows[i].snap.cats, flows[i].form.category_id) # {}
        /\ "category" \in DOMAIN flows[i].row.refs
        /\ flows[i].form.warehouse_id # Str(<<>>)
        /\ identified(flows[i].snap.whs, flows[i].form.warehouse_id) = {}
        /\ "warehouse" \notin DOMAIN flows[i].row.refs

(***************************************************************************)
(* Properties of the selection and the re-encoding of images (SpecImage).  *)
(***************************************************************************)
\* the file of the form a file input belongs to
pendingFile(isEdit) == IF isEdit THEN editingItem.v.file ELSE newItem.file

\* C11: for every image of at most MAX_FILE_SIZE bytes, the size of
\* exactly MAX_FILE_SIZE included, the compression gives back the very same
\* file: selecting it attaches it to the form with its name, type and size
\* as they are, and no re-encoding is started.
C11_WithinBudgetAsIs ==
    [][\A file \in Files, isEdit \in BOOLEAN :
          (/\ file.type \in SUPPORTED_FORMATS
           /\ file.size <= MAX_FILE_SIZE
           /\ handleFileChange(file, isEdit)) =>
              /\ pendingFile(isEdit)' = Some(file)
              /\ flows' = flows
              /\ error' = error]_vars

\* a PNG of exactly MAX_FILE_SIZE bytes is attached to the create form as
\* it was selected
C11_EdgeFileAttached ==
    /\ ~newItem.file.nul
    /\ newItem.file.v \in Files
    /\ newItem.file.v.size = MAX_FILE_SIZE
    /\ newItem.file.v.type = "image/png"

\* C13: selecting a file whose type is not one of the accepted image types
\* fails with the unsupported-format error: the error slot is set, no
\* compression is started, and the pending file of the create or edit form
\* is left as it was.
C13_UnsupportedRefused ==
    [][\A file \in Files, isEdit \in BOOLEAN :
          (file.type \notin SUPPORTED_FORMATS /\ handleFileChange(file, isEdit)) =>
              /\ error' = "Unsupported file format"
              /\ flows' = flows
              /\ UNCHANGED <<newItem, editingItem, uploading>>]_vars

\* a text file was refused while the create form held a PNG: the form
\* still holds the PNG
C13_RefusedKeepsPending ==
    /\ error = "Unsupported file format"
    /\ ~newItem.file.nul
    /\ newItem.file.v.type = "image/png"
    /\ flows = <<>>

\* this step is a re-encoding that gave no blob for handler i
noBlob(i) == optimizeImage(i) /\ faults' < faults

\* C14: if the re-encoding of an over-budget image gives no output, the
\* compression fails with an error, no second encoding is attempted (the
\* handler ends), the error is put in the error slot, and the pending file
\* of the form is left as it was.
C14_NoBlobIsTerminal ==
    [][\A i \in 1..MaxFlows :
          noBlob(i) =>
              /\ error' = "Failed to optimize image"
              /\ flows' = Remove(flows, i)
              /\ UNCHANGED <<newItem, editingItem, uploading, blobs>>]_vars

\* the re-encoding of a GIF gave no blob while the create form held a PNG:
\* the form still holds the PNG and nothing is being re-encoded
C14_FailedKeepsPending ==
    /\ error = "Failed to optimize image"
    /\ ~newItem.file.nul
    /\ newItem.file.v.type = "image/png"
    /\ \A i \in 1..Len(flows) : flows[i].pc # "optimize"

\* C12: for every over-budget image, the width and the height of the
\* re-encoded output are each no larger than the width and the height of
\* the image selected: a re-encoded file attached to a form is never
\* larger in pixels than the file it was made from.
C12_NeverUpscales ==
    \A isEdit \in BOOLEAN, file \in Files :
        (/\ ~pendingFile(isEdit).nul
         /\ pendingFile(isEdit).v.name = file.name
         /\ file.size > MAX_FILE_SIZE) =>
            /\ pendingFile(isEdit).v.width <= file.width
            /\ pendingFile(isEdit).v.height <= file.height

(***************************************************************************)
(* Properties of a load whose catalog refresh fails (SpecSync).            *)
(***************************************************************************)
\* C20: in a load sequence, a failure of the category fetch does not keep
\* the warehouse fetch or the inventory fetch from being issued, and a
\* failure of the warehouse fetch does not keep the inventory fetch from
\* being issued; the list whose fetch failed keeps its contents and the
\* failure message is put in the error slot.
C20_CatalogFailureDoesNotBlock ==
    [][\A i \in 1..MaxFlows :
          /\ (fetchCategories(i) /\ faults' < faults) =>
                /\ Len(flows') = Len(flows)
                /\ flows'[i].pc = "wh"
                /\ categories' = categories
                /\ error' = "Error fetching categories"
          /\ (fetchWarehouses(i) /\ faults' < faults) =>
                /\ Len(flows') = Len(flows)
                /\ flows'[i].pc = "inv"
                /\ requests' = requests + 1
                /\ warehouses' = warehouses
                /\ error' = "Error fetching warehouses"
          /\ (fetchCategories(i) /\ faults' = faults) =>
                flows'[i].pc = "wh"
          /\ (fetchWarehouses(i) /\ faults' = faults) =>
                flows'[i].pc = "inv" /\ requests' = requests + 1]_vars

\* the category fetch of a load failed, its warehouse fetch then returned
\* the warehouses, and its inventory fetch published the items
C20_LoadedWithoutCategories ==
    /\ error = "Error fetching categories"
    /\ published.kind = "load"
    /\ published.gotCats.nul /\ ~published.gotWhs.nul
    /\ items # <<>>

(***************************************************************************)
(* Properties of the paging (SpecPaging).                                  *)
(***************************************************************************)
\* the inclusive offset window of page p for the page size s
windowOf(p, s) == [from |-> (p - 1) * s, to |-> p * s - 1]

\* the window the query of a suspended fetchInventory asks the store for
requestedWindow(f, table) ==
    LET ans == CHOOSE a \in stockAnswers(table, f.snap.term, f.snap.fcat,
                                         f.snap.fwh, f.snap.page) : TRUE
    IN [from |-> ans.from, to |-> ans.to]

\* C15: every inventory fetch issued while the current page is p and the
\* page size is s requests exactly the inclusive offset window
\* [(p-1)*s, p*s - 1]: in every step that sends an inventory query, the
\* window of the query is that of the page the page is on.
C15_WindowOfCurrentPage ==
    [][requests' = requests + 1 =>
          \A i \in 1..Len(flows') :
              (flows'[i].pc = "inv" /\ flows'[i].req = requests') =>
                  requestedWindow(flows'[i], stock')
                      = windowOf(currentPage', itemsPerPage)]_vars

\* the rows of a table that match the term and the filters of a closure
hitsOf(table, snap) == {r \in table : matches(r, snap.term, snap.fcat, snap.fwh)}

\* the least number of pages of size s that hold n rows: ceil(n / s)
pagesFor(n, s) == CHOOSE k \in 0..n : k * s >= n /\ (k = 0 \/ (k - 1) * s < n)

idsOf(list) == {list[k].id : k \in 1..Len(list)}

\* C19: for a static stock table and fixed filters, fetching the pages in
\* turn returns every matching row exactly once, whatever the names: when
\* the answer for one page is followed by the answer for another page of
\* the same query over the same table, no row is on both.
C19_PagesShareNoRow ==
    [][(/\ published' # published
        /\ published.req > 0
        /\ stock = PagingStock /\ stock' = stock
        /\ published'.snap.term = published.snap.term
        /\ published'.snap.fcat = published.snap.fcat
        /\ published'.snap.fwh = published.snap.fwh
        /\ published'.snap.page # published.snap.page) =>
           idsOf(items) \cap idsOf(items') = {}]_vars

(***************************************************************************)
(* Properties of the query (SpecQuery).                                    *)
(***************************************************************************)
\* the rows of a table whose name contains the term in either case, when a
\* term is set, whose category is the category filter, when one is set, and
\* whose warehouse is the warehouse filter, when one is set
containing(table, snap) ==
    {r \in table :
        /\ snap.term # <<>> =>
               Contains(toLowerCase(r.name.s), toLowerCase(snap.term))
        /\ snap.fcat # <<>> => r.category = Str(snap.fcat)
        /\ snap.fwh # <<>> => r.warehouse = Str(snap.fwh)}

\* C17: after a successful inventory fetch, the published total count is
\* the number of stock rows that match the search term and the filters of
\* the fetch (their names contain the term, their category and warehouse
\* are the filters), and totalPages is ceil(totalCount / pageSize).
C17_CountOfMatchingRows ==
    [][published' # published =>
          /\ totalItems' = Cardinality(containing(stock, published'.snap))
          /\ totalPages' = pagesFor(totalItems', itemsPerPage)]_vars

\* C18: the rows an inventory fetch asks for are exactly those whose name
\* contains the search term case-insensitively (when one is set), whose
\* category equals the category filter (when set) and whose warehouse
\* equals the warehouse filter (when set): the rows of every published
\* page are among them, and all of them are on the page when they fit on
\* the first page.
C18_RowsAskedFor ==
    [][published' # published =>
          LET wanted == {r.id : r \in containing(stock, published'.snap)}
          IN /\ idsOf(items') \subseteq wanted
             /\ (published'.snap.page = 1 /\ Cardinality(wanted) <= itemsPerPage)
                    => wanted \subseteq idsOf(items')]_vars

(***************************************************************************)
(* Properties of failures and of the error slot.                           *)
(***************************************************************************)
\* the step issues a remote call: an inventory query is sent, or a
\* loadData goes from its categories on to fetchWarehouses
issuesCall ==
    \/ requests' > requests
    \/ \E i \in 1..Len(flows) :
          /\ flows[i].pc = "cat"
          /\ Len(flows') = Len(flows)
          /\ flows'[i].pc = "wh"

\* C21: after a remote read or write has failed, no further remote call is
\* issued until the user performs a new action: once the inventory read of
\* the page's first load has failed and while the user has done nothing,
\* no step issues a remote call.
C21_NoCallAfterFailure ==
    [][(events = 0 /\ error = "Error fetching inventory") => ~issuesCall]_vars

\* the error slot is set, by a step that fails, to the message of the failure
setsError(failed, message) == failed => error' = message

\* C22: there is a single error slot: every failure (a read, a write, an
\* upload, an unsupported format, a re-encoding) overwrites it with its own
\* message; only Dismiss clears it, and a step in which nothing fails,
\* a successful load or write among them, leaves the message in place.
C22_LastErrorWinsUntilDismissed ==
    [][/\ \A i \in 1..MaxFlows :
             /\ setsError(fetchCategories(i) /\ faults' < faults,
                          "Error fetching categories")
             /\ setsError(fetchWarehouses(i) /\ faults' < faults,
                          "Error fetching warehouses")
             /\ setsError(fetchInventory(i) /\ faults' < faults,
                          "Error fetching inventory")
             /\ setsError(uploadImage(i) /\ faults' < faults, "Error uploading image")
             /\ setsError(optimizeImage(i) /\ faults' < faults,
                          "Failed to optimize image")
             /\ setsError((insertStock(i) \/ updateStock(i)) /\ faults' < faults,
                          "Error writing stock")
       /\ \A file \in Files, isEdit \in BOOLEAN :
             setsError(handleFileChange(file, isEdit)
                          /\ file.type \notin SUPPORTED_FORMATS,
                       "Unsupported file format")
       /\ error' # error =>
             IF error' = "" THEN dismissError
             ELSE \/ faults' < faults
                  \/ \E file \in Files, isEdit \in BOOLEAN :
                        /\ handleFileChange(file, isEdit)
                        /\ file.type \notin SUPPORTED_FORMATS]_vars

\* the store has failed a request and a file of an unsupported type was
\* refused after it: the slot shows the later message, and a load has
\* been published since the page was mounted
C22_LaterMessageShown ==
    /\ faults < MaxFaults
    /\ error = "Unsupported file format"
    /\ published.req > 0
    /\ ~loading /\ flows = <<>>

(***************************************************************************)
(* Properties of the upload of a pending file (SpecImage).                 *)
(***************************************************************************)
\* the number of handlers waiting for the answer to their insert or update
writesPending(list) ==
    Cardinality({k \in 1..Len(list) :
                    list[k].pc = "write" /\ list[k].kind \in {"add", "save"}})

\* C25: when a create or an update has a pending file, the blob upload is
\* issued and completes before the insert or update is issued: a handler
\* whose form has a file waits for its write only with the file stored and
\* its public URL in the row; and when the upload fails the handler ends
\* there: no insert or update is issued and the stock table stays as it is.
C25_UploadBeforeWrite ==
    [][/\ \A k \in 1..Len(flows') :
             (/\ flows'[k].pc = "write"
              /\ flows'[k].kind \in {"add", "save"}
              /\ ~flows'[k].form.file.nul) =>
                 \E n \in 1..Len(blobs') :
                    /\ blobs'[n] = flows'[k].form.file.v
                    /\ flows'[k].row.thumbnail = publicUrl(n)
       /\ \A i \in 1..MaxFlows :
             (uploadImage(i) /\ faults' < faults) =>
                 /\ Len(flows') = Len(flows) - 1
                 /\ writesPending(flows') = writesPending(flows)
                 /\ stock' = stock /\ blobs' = blobs]_vars

\* a save whose form has a file has stored the file and waits for the
\* answer to its update
C25_UpdateSentAfterUpload ==
    \E k \in 1..Len(flows) :
        /\ flows[k].kind = "save" /\ flows[k].pc = "write"
        /\ ~flows[k].form.file.nul
        /\ Len(blobs) = 1 /\ blobs[1] = flows[k].form.file.v

(***************************************************************************)
(* Properties of the ownership of a picked image (SpecDialog).             *)
(***************************************************************************)
\* C26: an image picked in the edit dialog of one item belongs to the form
\* of that item only: when its re-encoding finishes after the dialog has
\* been switched to another item, the form of the other item stays as it
\* is: it gets neither the file nor the field values of the earlier item.
C26_FileStaysWithItsItem ==
    [][\A i \in 1..MaxFlows :
          (/\ optimizeImage(i)
           /\ flows[i].kind = "fileEdit"
           /\ ~editingItem.nul
           /\ editingItem.v.id # flows[i].form.id) =>
              editingItem' = editingItem]_vars

(***************************************************************************)
(* Properties of the delayed search (SpecQuery).                           *)
(***************************************************************************)
\* C23: at most one delayed refetch is pending; a change of the search
\* term or of a filter cancels the pending one, which never fires, and
\* schedules a new one 500 ms after that change: after every such change
\* the pending timeout is that of the change, with the whole delay left,
\* and a timeout that fires is that of the latest change, with its delay
\* over, and leaves none pending.
C23_ChangeReschedulesRefetch ==
    [][/\ changes' = changes + 1 =>
             /\ timer'.on /\ timer'.left = DelayMs
             /\ timer'.snap.change = changes'
             /\ timer'.snap.term = searchTerm'
             /\ timer'.snap.fcat = filterCategory'
             /\ timer'.snap.fwh = filterWarehouse'
       /\ delaySearch =>
             /\ timer.left = 0
             /\ timer.snap.change = changes
             /\ flows'[Len(flows')].snap = timer.snap
             /\ ~timer'.on]_vars

\* a second keystroke came less than 500 ms after the first, and the
\* delayed search that has fired is the one of the second keystroke
C23_SecondKeystrokeFetched ==
    /\ changes = 2 /\ burst.from = 1 /\ burst.delayed = 1
    /\ ~timer.on
    /\ \E i \in 1..Len(flows) :
          /\ flows[i].kind = "timer"
          /\ flows[i].snap.change = 2 /\ flows[i].snap.term = searchTerm

(***************************************************************************)
(* Properties of the refetch after a change (SpecRefetch).                 *)
(***************************************************************************)
\* the values the query of a closure is built from
queryOf(snap) == <<snap.term, snap.fcat, snap.fwh, snap.page>>

\* a loadData has not sent its inventory query yet
loadWaiting(f) == f.kind = "load" /\ f.pc \in {"cat", "wh"}

loadsWaiting == \E i \in 1..Len(flows) : loadWaiting(flows[i])

\* C24: every change of the search term, of a filter or of the page is
\* eventually followed by an inventory fetch whose predicate and offset
\* window are built from the new values, when the store answers every
\* request: the change starts a loadData with the new values; a loadData
\* that has not sent its inventory query stays, with its values, until it
\* sends it; and the loads that wait do not wait for ever.
C24_ChangeLeadsToFetch ==
    /\ [][events' = events + 1 =>
             /\ loadWaiting(flows'[Len(flows')])
             /\ queryOf(flows'[Len(flows')].snap)
                   = <<searchTerm', filterCategory', filterWarehouse', currentPage'>>]_vars
    /\ [][\A i \in 1..Len(flows) :
             loadWaiting(flows[i]) =>
                 \E k \in 1..Len(flows') :
                    /\ flows'[k].kind = "load"
                    /\ flows'[k].snap = flows[i].snap
                    /\ flows'[k].pc \in {flows[i].pc,
                                         IF flows[i].pc = "cat" THEN "wh" ELSE "inv"}]_vars
    /\ loadsWaiting ~> ~loadsWaiting

\* the query of page 2 has been sent for the click on page 2
C24_SecondPageRequested ==
    /\ currentPage = 2
    /\ \E i \in 1..Len(flows) :
          /\ flows[i].kind = "load" /\ flows[i].pc = "inv"
          /\ flows[i].snap.cause = "page" /\ flows[i].snap.page = 2
          /\ requestedWindow(flows[i], stock) = windowOf(2, itemsPerPage)

(***************************************************************************)
(* Properties of the catalog lists (SpecCatalog).                          *)
(***************************************************************************)
\* a list of entries is in ascending order of name
orderedByName(list) ==
    \A k \in 1..(Len(list) - 1) : ~StrLess(list[k + 1].name.s, list[k].name.s)

\* C27: in every reachable state the category list and the warehouse list
\* of the page are ordered by name ascending, after a refresh of the
\* catalog as well as after the user has added a category or a warehouse.
C27_ListsOrderedByName == orderedByName(categories) /\ orderedByName(warehouses)

\* C28: an insert of a category or warehouse that the store accepts adds
\* exactly the created entry, with the id the store gave it, to the list
\* of the page; one that the store rejects leaves the list as it is, puts
\* the error in the error slot and leaves the dialog open with the name
\* typed.
C28_AddAppendsCreatedEntry ==
    [][\A i \in 1..MaxFlows :
          /\ insertCategory(i) =>
                IF faults' = faults
                THEN \E entry \in categoryTable' \ categoryTable :
                        /\ entry.name = flows[i].form.name
                        /\ categories' = categories \o <<entry>>
                ELSE /\ categories' = categories
                     /\ error' = "Error adding category"
                     /\ isNewCategoryModalOpen' /\ newCategory' = newCategory
          /\ insertWarehouse(i) =>
                IF faults' = faults
                THEN \E entry \in warehouseTable' \ warehouseTable :
                        /\ entry.name = flows[i].form.name
                        /\ warehouses' = warehouses \o <<entry>>
                ELSE /\ warehouses' = warehouses
                     /\ error' = "Error adding warehouse"
                     /\ isNewWarehouseModalOpen' /\ newWarehouse' = newWarehouse]_vars

(***************************************************************************)
(* Properties of the number fields (SpecNumbers).                          *)
(***************************************************************************)
\* the decimal numeral of an integer
numeral(n) == IF n < 0 THEN <<45>> \o Digits(-n) ELSE Digits(n)

\* the number a text is the numeral of, or 0 when it is the numeral of none
numberTyped(text) ==
    LET numbers == {n \in -9..9 : numeral(n) = text}
    IN IF numbers = {} THEN 0 ELSE CHOOSE n \in numbers : TRUE

\* C29: whatever text is typed into the quantity, price or threshold field
\* of the create or edit form, the form value becomes the number parsed
\* from it, or 0 when the text is no number; and the row a save sends
\* carries these numbers, so that a text that is no number does not make
\* the save fail.
C29_NumberOrZero ==
    [][/\ \A input \in numberInputs :
             /\ handleInputChange(input[1], input[2]) =>
                   newItem'[input[1]] = numberTyped(input[2])
             /\ handleEditChange(input[1], input[2]) =>
                   editingItem'.v[input[1]] = numberTyped(input[2])
       /\ \A k \in 1..Len(flows') :
             (flows'[k].kind \in {"add", "save"} /\ flows'[k].pc = "write") =>
                 /\ flows'[k].row.quantity = flows'[k].form.quantity
                 /\ flows'[k].row.price = flows'[k].form.price
                 /\ flows'[k].row.threshold = flows'[k].form.threshold
                 /\ {flows'[k].row.quantity, flows'[k].row.price,
                     flows'[k].row.threshold} \subseteq Int]_vars

\* "x" was typed into the threshold of the create form, whose value
\* became 0, and the store has taken the row
C29_TextSavedAsZero ==
    \E k \in 1..Len(flows) :
        /\ flows[k].kind = "add" /\ flows[k].pc = "inv"
        /\ flows[k].form.threshold = 0
        /\ \E r \in stock : r.name = flows[k].form.name /\ r.threshold = 0

\* C30: every row that a create or an update sends to the store has an
\* integer quantity >= 0, a price >= 0 and an integer threshold >= 0, for
\* every sequence of form inputs.
C30_SentNumbersNonNegative ==
    \A k \in 1..Len(flows) :
        (flows[k].kind \in {"add", "save"} /\ flows[k].pc = "write") =>
            /\ flows[k].row.quantity \in Nat
            /\ flows[k].row.price >= 0
            /\ flows[k].row.threshold \in Nat

(***************************************************************************)
(* Properties of the inventory table (SpecNumbers).                        *)
(***************************************************************************)
\* C31: an item is marked Low Stock exactly when its quantity is at most
\* its threshold and In Stock exactly when its quantity is above it; a
\* quantity equal to the threshold is Low Stock.
C31_LowStockAtOrBelowThreshold ==
    \A k \in 1..Len(items) :
        /\ statusCell(items[k]) \in {"Low Stock", "In Stock"}
        /\ statusCell(items[k]) = "Low Stock" <=> ~(items[k].quantity > items[k].threshold)
        /\ statusCell(items[k]) = "In Stock" <=> ~(items[k].quantity < items[k].threshold + 1)
        /\ items[k].quantity = items[k].threshold => statusCell(items[k]) = "Low Stock"

\* the table shows a row created with quantity 7 and the threshold 10 as
\* Low Stock, a row whose quantity equals its threshold as Low Stock and
\* the row of quantity 11 and threshold 10 as In Stock
C31_CreatedRowMarkedLow ==
    /\ ~loading
    /\ \E k \in 1..Len(items) :
          /\ items[k].name = Str(<<110>>)
          /\ items[k].quantity = 7 /\ items[k].threshold = 10
          /\ statusCell(items[k]) = "Low Stock"
    /\ \E k \in 1..Len(items) :
          /\ items[k].quantity = items[k].threshold
          /\ statusCell(items[k]) = "Low Stock"
    /\ \E k \in 1..Len(items) :
          /\ items[k].quantity = 11 /\ items[k].threshold = 10
          /\ statusCell(items[k]) = "In Stock"

(***************************************************************************)
(* Properties of the page at rest (SpecSync, SpecPaging).                  *)
(***************************************************************************)
\* no handler is suspended at a remote call and no delayed search is pending
quiescent == flows = <<>> /\ ~timer.on

\* C32: once every inventory fetch in flight has resolved successfully and
\* no debounce timer is pending, the items and the total count shown are
\* an answer of the store to the query for the current search term,
\* filters and page, never those of a superseded query.
C32_SettledViewOfCurrentQuery ==
    (quiescent /\ published.req > 0 /\ error = "") =>
        \E ans \in stockAnswers(stock, searchTerm, filterCategory, filterWarehouse,
                                currentPage) :
            /\ totalItems = ans.count
            /\ idsOf(items) = idsOf(ans.data)

\* C33: in every state with no remote call in flight that is reached after
\* a successful load, the current page p satisfies
\* 1 <= p <= max(1, totalPages), after any page changes and deletes.
C33_PageWithinResult ==
    (quiescent /\ published.req > 0) =>
        /\ 1 <= currentPage
        /\ currentPage <= (IF totalPages > 1 THEN totalPages ELSE 1)

\* an inventory fetch is in flight: a handler is suspended at the await of
\* the query of fetchInventory
fetching == \E i \in 1..Len(flows) : flows[i].pc = "inv"

\* C34: loading is true whenever at least one inventory fetch is in flight:
\* when two fetches overlap, the resolution of the first does not turn
\* loading false while the second is still pending.
C34_LoadingWhileFetching == fetching => loading

(***************************************************************************)
(* Properties of the images and the forms (SpecImage).                     *)
(***************************************************************************)
\* C35: field edits made in the create or edit form while an image
\* compression for that form is in flight are still in the form after the
\* compression completes: the step that attaches the file changes only the
\* file field of the form.
C35_AttachChangesOnlyFile ==
    [][\A i \in 1..MaxFlows :
          (optimizeImage(i) /\ faults' = faults) =>
              /\ flows[i].kind = "fileNew" =>
                    newItem' = [newItem EXCEPT !.file = newItem'.file]
              /\ (flows[i].kind = "fileEdit" /\ editingItem.v.id = flows[i].form.id) =>
                    editingItem'.v = [editingItem.v EXCEPT !.file = editingItem'.v.file]]_vars

\* a call of optimizeImage has not settled: handleFileChange is suspended
\* at its await
optimizing == \E i \in 1..Len(flows) : flows[i].pc = "optimize"

\* C36: every call of the image compressor eventually settles, with a file
\* or with an error, for every input file, so handleFileChange always
\* finishes.
C36_CompressionSettles == optimizing ~> ~optimizing

(***************************************************************************)
(* Properties of the fields an update carries (SpecForm).                  *)
(***************************************************************************)
\* what an update does to one reference field of the stored row: with an
\* empty form id the row sent has no such field and the stored value stays;
\* the stored value changes only to the name of the entry that the form id
\* identifies in the list of the handler
keepsUnlessResolved(f, field, formId, list, before, after) ==
    /\ ~Truthy(formId) => (field \notin DOMAIN f.row.refs /\ after = before)
    /\ after # before =>
          \E e \in identified(list, formId) : after = e.name

\* C37: saving an edit whose form has an empty category_id (warehouse_id)
\* sends an update without a category (warehouse) field, and the stored
\* category (warehouse) of the row, an orphaned name included, stays as it
\* is; an edit changes it only when an id that resolves is selected.
C37_EmptyIdKeepsStoredName ==
    [][\A i \in 1..MaxFlows :
          (updateStock(i) /\ faults' = faults
             /\ \E r \in stock : r.id = flows[i].form.id) =>
              LET f == flows[i]
                  before == rowOf(f.form.id)
                  after == CHOOSE r \in stock' : r.id = f.form.id
              IN /\ keepsUnlessResolved(f, "category", f.form.category_id,
                                        f.snap.cats, before.category, after.category)
                 /\ keepsUnlessResolved(f, "warehouse", f.form.warehouse_id,
                                        f.snap.whs, before.warehouse, after.warehouse)]_vars

\* the row "b" of the orphaned category "z" and of no warehouse was saved
\* with the quantity 7 from an edit form without ids: the stored row has
\* the new quantity, still the category "z" and still no warehouse
C37_OrphanKeptByEdit ==
    \E r \in stock :
        /\ r.id = 2 /\ r.quantity = 7
        /\ r.category = Str(<<122>>) /\ r.warehouse = Null

(***************************************************************************)
(* Properties of the page number of a query (SpecRefetch).                 *)
(***************************************************************************)
\* the search term and the filters of a closure
selectionOf(snap) == <<snap.term, snap.fcat, snap.fwh>>

\* C38: every change of the search term or of a filter sets the current
\* page to 1 in the same step, and no inventory fetch is issued that
\* combines a new search term or filter with a page number of the previous
\* result: a query for the current term and filters that is sent while the
\* result shown is still that of other ones asks for page 1.
C38_NewSelectionFetchedFromPageOne ==
    /\ [][changes' = changes + 1 => currentPage' = 1]_vars
    /\ [][requests' = requests + 1 =>
             \A i \in 1..Len(flows') :
                 (/\ flows'[i].pc = "inv" /\ flows'[i].req = requests'
                  /\ selectionOf(flows'[i].snap)
                        = <<searchTerm', filterCategory', filterWarehouse'>>
                  /\ published.req > 0
                  /\ selectionOf(published.snap) # selectionOf(flows'[i].snap)) =>
                     flows'[i].snap.page = 1]_vars

(***************************************************************************)
(* Properties of the blob store (SpecImage).                               *)
(***************************************************************************)
\* a create or an update is under way: its handler is suspended at an await
saving == \E i \in 1..Len(flows) : flows[i].kind \in {"add", "save"}

\* C39: every blob uploaded by a create or an update ends up referenced as
\* the thumbnail of a stored stock row: once no create and no update is
\* under way, no uploaded blob is left that no row references.
C39_EveryBlobReferenced ==
    ~saving =>
        \A n \in 1..Len(blobs) : \E r \in stock : r.thumbnail = publicUrl(n)

====
